---- MODULE Spec2Model ----
(***************************************************************************)
(* Consumer delivery pipeline of kafka-pubsub-system: batched polling,     *)
(* message transformation, idempotent bulk persistence with retry,         *)
(* offset-commit bookkeeping and dead-letter routing.                      *)
(*                                                                         *)
(* The specifications share the definitions below:                         *)
(*   Spec         DataConsumer.run with everything it calls                *)
(*   SpecLive     the same, every step of run eventually taken             *)
(*   SpecMetrics  the same, with a metrics sink whose calls may raise      *)
(*   SpecConnect  the connection phase of run, every retry configuration   *)
(*   SpecStorage  MongoDBHandler.insert_batch called on arbitrary batches  *)
(*   SpecIndexes  several instances in create_indexes on one collection    *)
(*   SpecCalls    the consumer's functions called on their own             *)
(*   SpecProducer DataProducer.send_batch called on arbitrary batches      *)
(*   SpecProducerRun  DataProducer.run with a signal at any moment         *)
(* insert_batch runs one iteration of its retry loop per step.             *)
(* Times are integers in milliseconds: the source computes                 *)
(* (retry_backoff_ms / 1000) * 2 ** (retry_count - 1) seconds.             *)
(***************************************************************************)
EXTENDS Integers, Sequences, FiniteSets, TLC

\* ------------------------------------------------------------------ bounds
\* largest max_retries the configuration is drawn with
MaxRetries == 3
\* number of records the broker delivers in a run
MaxOffset == 3
\* largest batch_size / offset_commit_frequency the configuration is drawn with
MaxBatch == 2
\* documents per insert_batch call in SpecStorage, and calls per run
MaxDocs == 2
MaxCalls == 2
\* broker error events counted in a run
MaxErrors == 1
\* messages per batch handed to a function in SpecCalls
MaxLen == 3
\* iterations of the loop of DataProducer.run
MaxIterations == 3

\* ------------------------------------------------------- program constants
DUPLICATE_KEY == 11000
\* a server write-error code other than duplicate key (document validation failure)
OTHER_WRITE_ERROR == 121
DEFAULT_BACKOFF_MS == 1000

NoId == 0
\* sample document identifiers
Ids == {1, 2}
None == "None"
Absent == NoId

VARIABLES
    config,                 \* max_retries, retry_backoff_ms, batch_size, offset_commit_frequency
    pc,                     \* position of DataConsumer.run
    running,                \* self.running
    consumer,               \* self.consumer: None | "open" | "closed"
    producer,               \* self.producer: None | "open" | "flushed"
    collection,             \* storage.collection: None | "open" | "closed"
    messages,               \* batch being collected / processed
    messages_since_commit,  \* self.messages_since_commit
    position,               \* broker: records delivered to this consumer so far
    committed,              \* broker: committed position of the group
    store,                  \* MongoDB collection: set of stored documents
    dlq,                    \* dead-letter topic: envelopes published, in order
    clock,                  \* logical wall clock
    metrics,                \* counters and gauges of the metrics sink
    persisted,              \* offsets of records whose document a successful insert_batch took
    lastCommit,             \* the latest consumer.commit call issued
    owed,                   \* position of the oldest rejected commit since the last accepted one
    lastProc,               \* summary of this iteration's process_and_store_batch call
    ins,                    \* the insert_batch call in progress, or the latest finished one
    calls,                  \* calls made by the caller of SpecStorage / SpecCalls
    client,                 \* storage.client: None | "open" | "closed"
    conn,                   \* the connect_kafka / storage.connect call in progress or just ended
    signalled,              \* a termination signal has been delivered to handle_signal
    ret,                    \* SpecCalls: the latest call of a function and what it returned
    indexes,                \* MongoDB: names of the collection's indexes, in creation order
    instances,              \* the consumer instances, each in its storage.connect
    last_health_check_time, \* DataProducer.last_health_check_time, in seconds
    operational,            \* the producer's operational-status gauge: "up" | "down"
    cleanups,               \* number of times DataProducer._cleanup has run
    log,                    \* what DataProducer.run has done: probes, batches, signals
    uncommitted             \* raw records of the batches stored since the last accepted commit

vars == <<config, pc, running, consumer, producer, collection, messages,
          messages_since_commit, position, committed, store, dlq, clock, metrics,
          persisted, lastCommit, owed, lastProc, ins, calls, client, conn, signalled,
          ret, indexes, instances, last_health_check_time, operational, cleanups, log,
          uncommitted>>

\* ---------------------------------------------------------------- helpers
Pow2(n) == 2 ^ n

\* ------------------------------------------------------- storage.py
\* (self.retry_backoff_ms / 1000) * (2 ** (retry_count - 1)), in milliseconds
BackoffDoubled(retry_count) == config.retry_backoff_ms * Pow2(retry_count)
backoff_time(retry_count) == config.retry_backoff_ms * Pow2(retry_count - 1)

\* the _id pymongo generates, in place, for a document that carries none:
\* one per document object, kept across the retries of one call, and different
\* from every identifier (identifiers are positive, generated keys negative)
ObjectId(doc) == 0 - (100 * doc.src + doc.received_at)

\* for doc in documents: if 'id' in doc: doc['_id'] = doc['id']
NoPromotion(doc) == [_id |-> Absent, id |-> doc.id, src |-> doc.src, received_at |-> doc.received_at]
PromoteId(doc) ==
    [_id |-> IF doc.id # NoId THEN doc.id ELSE Absent,
     id |-> doc.id, src |-> doc.src, received_at |-> doc.received_at]

\* collection.insert_many(documents, ordered=False) on the server: every document is
\* tried, whatever happens to the others; a document whose _id is already stored gets
\* a duplicate-key write error, a document the server rejects (index i in rejected)
\* another write error, every other document is inserted.
RECURSIVE BulkInsert(_, _, _, _, _)
BulkInsert(st, docs, i, rejected, errs) ==
    IF i > Len(docs) THEN [store |-> st, writeErrors |-> errs]
    ELSE LET d == docs[i]
             key == IF d._id = Absent THEN ObjectId(d) ELSE d._id
         IN  IF i \in rejected
             THEN BulkInsert(st, docs, i + 1, rejected,
                             Append(errs, [index |-> i, code |-> OTHER_WRITE_ERROR]))
             ELSE IF \E s \in st : s._id = key
             THEN BulkInsert(st, docs, i + 1, rejected,
                             Append(errs, [index |-> i, code |-> DUPLICATE_KEY]))
             ELSE BulkInsert(st \cup {[d EXCEPT !._id = key]}, docs, i + 1, rejected, errs)

\* What one insert_many call can do, as the driver reports it:
\*   net   a PyMongoError that is no BulkWriteError (the server was not reached)
\*   bulk  the server ran the unordered insert, rejecting the documents in `rejected`
\*   wce   as bulk with nothing rejected, but the write concern failed: a
\*         BulkWriteError whose writeErrors hold at most duplicate-key errors
Outcomes(n) ==
    {[type |-> "net", rejected |-> {}], [type |-> "wce", rejected |-> {}]}
      \cup {[type |-> "bulk", rejected |-> S] : S \in SUBSET (1..n)}

\* raised: "none" | "PyMongoError" | "BulkWriteError"
insert_many(st, docs, o) ==
    IF o.type = "net"
    THEN [raised |-> "PyMongoError", store |-> st, writeErrors |-> <<>>]
    ELSE LET r == BulkInsert(st, docs, 1, o.rejected, <<>>)
         IN  [raised |-> IF r.writeErrors # <<>> \/ o.type = "wce"
                         THEN "BulkWriteError" ELSE "none",
              store |-> r.store, writeErrors |-> r.writeErrors]

\* how an insert_many call ended, as the caller can tell from what it raised:
\*   "ok"             it returned
\*   "error"          a PyMongoError that is no BulkWriteError
\*   "duplicate"      a BulkWriteError whose write errors are all duplicate-key errors
\*   "write_error"    a BulkWriteError with a write error that is no duplicate key
\*   "no_write_error" a BulkWriteError with no write error at all
Ended(r) ==
    IF r.raised = "none" THEN "ok"
    ELSE IF r.raised = "PyMongoError" THEN "error"
    ELSE IF r.writeErrors = <<>> THEN "no_write_error"
    ELSE IF \E k \in 1..Len(r.writeErrors) : r.writeErrors[k].code # DUPLICATE_KEY
    THEN "write_error"
    ELSE "duplicate"

\* isinstance(e, BulkWriteError) and all(error.get('code') == 11000 for error in writeErrors)
NeverDuplicateOnly(r) == FALSE
IsDuplicateOnly(r) ==
    /\ r.raised = "BulkWriteError"
    /\ \A k \in 1..Len(r.writeErrors) : r.writeErrors[k].code = DUPLICATE_KEY

\* insert_batch(documents) up to its loop: the call's local state. result is
\* "pending" while the loop runs, then what the call returned ("True", "False",
\* None for a loop that fell through) or "raise" for an exception that escaped it.
NoInsert ==
    [called |-> FALSE, docs |-> <<>>, before |-> {}, retry_count |-> 0,
     sleeps |-> <<>>, trace |-> <<>>, result |-> "True"]

\* an insert_batch without its `if not documents: return True`
EnterWithoutEmptyCheck(docs, st) ==
    [called |-> TRUE, docs |-> docs, before |-> st, retry_count |-> 0,
     sleeps |-> <<>>, trace |-> <<>>, result |-> "pending"]

insert_batch_enter(docs, st) ==
    [called |-> TRUE, docs |-> docs, before |-> st, retry_count |-> 0,
     sleeps |-> <<>>, trace |-> <<>>,
     result |-> IF docs = <<>> THEN "True" ELSE "pending"]

\* One iteration of `while retry_count < self.max_retries` for the call c on a handler
\* whose collection is coll, o being what this iteration's insert_many call does;
\* trace records how each insert_many call ended. With no collection (connect never
\* succeeded) self.collection.insert_many raises AttributeError, which the
\* except PyMongoError clause does not catch.
insert_batch_iteration(c, coll, st, o) ==
    IF ~(c.retry_count < config.max_retries)
    THEN [call |-> [c EXCEPT !.result = None], store |-> st]
    ELSE IF coll = None
    THEN [call |-> [c EXCEPT !.result = "raise"], store |-> st]
    ELSE
      LET promoted == [i \in 1..Len(c.docs) |-> PromoteId(c.docs[i])]
          r == insert_many(st, promoted, o)
          rc == c.retry_count + 1
      IN  IF r.raised = "none"
          THEN [call |-> [c EXCEPT !.result = "True", !.trace = Append(@, Ended(r))],
                store |-> r.store]
          ELSE IF IsDuplicateOnly(r)
          THEN [call |-> [c EXCEPT !.result = "True", !.retry_count = rc,
                                   !.trace = Append(@, Ended(r))],
                store |-> r.store]
          ELSE IF rc < config.max_retries
          THEN [call |-> [c EXCEPT !.retry_count = rc, !.trace = Append(@, Ended(r)),
                                   !.sleeps = Append(@, backoff_time(rc))],
                store |-> r.store]
          ELSE [call |-> [c EXCEPT !.result = "False", !.retry_count = rc,
                                   !.trace = Append(@, Ended(r))],
                store |-> r.store]

\* insert_batch(documents) from entry to return: the call c runs its loop, os listing
\* what the successive insert_many calls do
RECURSIVE insert_batch(_, _, _, _)
insert_batch(c, coll, st, os) ==
    IF c.result # "pending" \/ os = <<>> THEN [call |-> c, store |-> st]
    ELSE LET r == insert_batch_iteration(c, coll, st, Head(os))
         IN  insert_batch(r.call, coll, r.store, Tail(os))

\* the local state of a connect call (connect_kafka or storage.connect): result is
\* "pending" while its loop runs, then "True", "False", None for a loop that fell
\* through, or "raise" for an exception that escaped the call
NoConn == [fn |-> "none", retry_count |-> 0, sleeps |-> <<>>, result |-> "pending"]
connect_enter(fn) == [fn |-> fn, retry_count |-> 0, sleeps |-> <<>>, result |-> "pending"]

\* a connect loop that sleeps after its last attempt as well
SleepAfterLastAttempt(c, ok) ==
    IF ~(c.retry_count < config.max_retries)
    THEN [c EXCEPT !.result = None]
    ELSE IF ok
    THEN [c EXCEPT !.result = "True"]
    ELSE LET rc == c.retry_count + 1
         IN  [c EXCEPT !.retry_count = rc, !.sleeps = Append(@, backoff_time(rc)),
                       !.result = IF rc < config.max_retries THEN "pending" ELSE "False"]

\* One iteration of `while retry_count < self.max_retries` of a connect call, ok
\* telling whether the attempt in its try block went through: both loops return True
\* then; otherwise they count the attempt and sleep before the next one, or return
\* False after the last one.
connect_iteration(c, ok) ==
    IF ~(c.retry_count < config.max_retries)
    THEN [c EXCEPT !.result = None]
    ELSE IF ok
    THEN [c EXCEPT !.result = "True"]
    ELSE LET rc == c.retry_count + 1
         IN  IF rc < config.max_retries
             THEN [c EXCEPT !.retry_count = rc, !.sleeps = Append(@, backoff_time(rc))]
             ELSE [c EXCEPT !.retry_count = rc, !.result = "False"]

\* what an attempt of storage.connect can do: go through, or raise PyMongoError in
\* MongoClient(...) or in the ping
StorageAttempts == {"ok", "client", "ping"}

\* self.client and self.collection after an attempt of storage.connect
client_after_attempt(cl, o) == IF o = "client" THEN cl ELSE "open"
collection_after_attempt(coll, o) == IF o = "ok" THEN "open" ELSE coll

\* MongoDBHandler.close(): if self.client: self.client.close()
ClientLeftOpen(cl) == cl
client_after_close(cl) == IF cl # None THEN "closed" ELSE cl

\* create_indexes(): the index it wants, under the name the server gives an ascending
\* index on created_at
CREATED_AT_1 == [name |-> "created_at_1", key |-> "created_at"]
ID_INDEX == [name |-> "_id_", key |-> "_id"]

\* index_names = [idx.get('name') for idx in existing_indexes]
index_names(ixs) == {ixs[k].name : k \in 1..Len(ixs)}

\* what list_indexes and create_index can do: answer, or raise PyMongoError
IndexOutcomes == {"ok", "error"}

\* collection.create_index on the server: an index that exists under the same name
\* and key is left as it is, a second index on the same key under another name (or
\* another key under the same name) is refused, anything else is built
create_index_refused(ixs, ix) ==
    \E k \in 1..Len(ixs) : (ixs[k].name = ix.name) # (ixs[k].key = ix.key)
create_index(ixs, ix) ==
    IF \E k \in 1..Len(ixs) : ixs[k].name = ix.name \/ ixs[k].key = ix.key
    THEN ixs ELSE Append(ixs, ix)

\* a create_indexes that creates the index without looking at the listing
CreateUnseen(names) == TRUE
\* if 'created_at_1' not in index_names
creation_needed(names) == CREATED_AT_1.name \notin names

\* a create_indexes that lets PyMongoError out into connect's try block
ErrorsEscape(o) == o = "error"
\* except PyMongoError as e: self.logger.error(...): nothing leaves create_indexes
create_indexes_raises(o) == FALSE

\* one consumer instance inside storage.connect: at "idle" outside the call, at
\* "listed" between its listing and its create_index; seen holds index_names of its
\* latest listing, issued counts its create_index requests, erred tells whether its
\* latest create_indexes met an error
NoInstance == [pc |-> "idle", calls |-> 0, seen |-> {}, issued |-> 0, erred |-> FALSE,
               conn |-> NoConn]

\* ------------------------------------------------------- utils/metrics.py
\* Whether a call of the metrics sink returns. The client library's counters,
\* histograms and gauges do not raise on the values this program passes; the
\* configurations of SpecMetrics let every call raise as well.
MetricsOutcomes == IF config.metrics_faulty THEN BOOLEAN ELSE {TRUE}

\* MetricsCollector.increment_processing_errors() on the sink's counters
CountNothing(counters) == counters
increment_processing_errors(counters) == [counters EXCEPT !.errors = @ + 1]

\* ------------------------------------------------------- data_processor.py
\* What a record's value bytes are, as far as json.loads(value.decode('utf-8')) can
\* tell: a JSON object (with or without an "id" member), another JSON value, text
\* (an array, a scalar), text that is no JSON, bytes that are no UTF-8, or no bytes
\* at all (None or b''); "nomessage" stands for a message that is itself None.
ValueKinds == {"object", "array", "scalar", "badjson", "badutf8", "empty", "nomessage"}
Value(kind, id) == [kind |-> kind, id |-> id]

\* a transformer that takes every value that parses as JSON
AcceptAnyJson(message, now) ==
    IF message.value.kind \in {"object", "array", "scalar"}
    THEN [success |-> TRUE,
          payload |-> [id |-> message.value.id, src |-> message.offset,
                       received_at |-> now]]
    ELSE [success |-> FALSE]

\* DataProcessor.process_message(message) at wall-clock time now. The payload's src
\* is the offset of the record it was parsed from: a tag of the model, which the
\* program's document does not carry, that tells which record a document stands for.
process_message(message, now) ==
    IF message.value.kind \in {"nomessage", "empty"}
    THEN [success |-> FALSE]                       \* not message or not message.value()
    ELSE IF message.value.kind = "badutf8"
    THEN [success |-> FALSE]                       \* UnicodeDecodeError: except Exception
    ELSE IF message.value.kind = "badjson"
    THEN [success |-> FALSE]                       \* json.JSONDecodeError
    ELSE IF message.value.kind # "object"
    THEN [success |-> FALSE]                       \* not isinstance(payload, dict)
    ELSE [success |-> TRUE,
          payload |-> [id |-> message.value.id, src |-> message.offset,
                       received_at |-> now]]

\* DataProcessor.process_batch(messages)
RECURSIVE process_batch(_, _)
process_batch(msgs, now) ==
    IF msgs = <<>> THEN <<>>
    ELSE LET r == process_message(Head(msgs), now)
         IN  IF r.success
             THEN <<r.payload>> \o process_batch(Tail(msgs), now)
             ELSE process_batch(Tail(msgs), now)

\* ------------------------------------------------------- consumer.py
TOPIC == "data-topic"
DEAD_LETTER_TOPIC == "dead-letter-topic"
STORAGE_FAILURE == "MongoDB storage failure"
NoKey == 0

\* the key of the record at offset o (every third record has none)
KeyOf(o) == IF o % 3 = 0 THEN NoKey ELSE o

\* a router that publishes whether or not there is a producer
PublishWithoutProducer(prod, message, error, now, produceOk) ==
    [ok |-> TRUE,
     published |-> << [to |-> DEAD_LETTER_TOPIC, key |-> message.key,
                       original_message |-> "text", error |-> error,
                       topic |-> message.topic, partition |-> message.partition,
                       offset |-> message.offset, timestamp |-> now] >>]

\* a router that publishes its envelopes without a key
KeylessEnvelope(prod, message, error, now, produceOk) ==
    IF prod = None \/ message.value.kind = "badutf8" \/ ~produceOk
    THEN [ok |-> FALSE, published |-> <<>>]
    ELSE [ok |-> TRUE,
          published |-> << [to |-> DEAD_LETTER_TOPIC, key |-> NoKey,
                            original_message |-> "text", error |-> error,
                            topic |-> message.topic, partition |-> message.partition,
                            offset |-> message.offset, timestamp |-> now] >>]

\* DataConsumer.send_to_dead_letter(message, error) with producer prod, produceOk
\* telling whether producer.produce accepts the envelope (it raises otherwise).
\* Returns what the call returned and the envelopes (none or one) it published.
send_to_dead_letter(prod, message, error, now, produceOk) ==
    IF prod = None
    THEN [ok |-> FALSE, published |-> <<>>]
    ELSE IF message.value.kind = "badutf8"
    THEN [ok |-> FALSE, published |-> <<>>]        \* value().decode('utf-8') raises
    ELSE IF ~produceOk
    THEN [ok |-> FALSE, published |-> <<>>]
    ELSE [ok |-> TRUE,
          published |-> << [to |-> DEAD_LETTER_TOPIC,
                            key |-> message.key,
                            original_message |-> IF message.value.kind = "empty"
                                                 THEN None ELSE "text",
                            error |-> error,
                            topic |-> message.topic,
                            partition |-> message.partition,
                            offset |-> message.offset,
                            timestamp |-> now] >>]

\* process_and_store_batch: `if not storage_success`, on what insert_batch returned
AnyReturnFails(result) == result \in {"True", "False", None}
storage_failed(result) == result \in {"False", None}

\* for message in messages: self.send_to_dead_letter(message, "MongoDB storage failure")
RECURSIVE dead_letter_all(_, _, _, _)
dead_letter_all(prod, msgs, now, produceOks) ==
    IF msgs = <<>> THEN <<>>
    ELSE send_to_dead_letter(prod, Head(msgs), STORAGE_FAILURE, now,
                             Head(produceOks)).published
           \o dead_letter_all(prod, Tail(msgs), now, Tail(produceOks))

\* What consumer.poll returns: a record, an event whose error() is a partition EOF,
\* an event with another error, or None ("none"; a caller's list of polls that
\* has run out stands for None as well).
PollKinds == {"record", "eof", "error", "none"}

\* consume_batch: the error counter after a polled event ev
EveryEventCounted(counters, ev) ==
    IF ev \in {"error", "eof"} THEN increment_processing_errors(counters) ELSE counters
errors_after_poll(counters, ev) ==
    IF ev = "error" THEN increment_processing_errors(counters) ELSE counters

\* consume_batch() from the k-th poll on, polls listing what the successive polls
\* return, msgs being the batch so far and run the running flag: the record of the
\* k-th poll is the one at offset k. Returns the batch, the counters, and the
\* number of polls issued.
RECURSIVE consume_batch(_, _, _, _, _)
consume_batch(polls, k, msgs, counters, run) ==
    IF ~(Len(msgs) < config.batch_size) \/ ~run
    THEN [messages |-> msgs, counters |-> counters, polled |-> k - 1]
    ELSE IF k > Len(polls) \/ polls[k] = "none"
    THEN [messages |-> msgs, counters |-> counters, polled |-> k]
    ELSE IF polls[k] \in {"eof", "error"}
    THEN consume_batch(polls, k + 1, msgs, errors_after_poll(counters, polls[k]), run)
    ELSE consume_batch(polls, k + 1,
                       Append(msgs, [offset |-> k, partition |-> 0, topic |-> TOPIC,
                                     key |-> KeyOf(k), value |-> Value("object", NoId)]),
                       counters, run)

\* what an attempt of connect_kafka can do: go through, or raise KafkaException in
\* Consumer(...), in subscribe or in Producer(...)
KafkaAttempts == {"ok", "consumer", "subscribe", "producer"}

\* self.consumer and self.producer after an attempt of connect_kafka
consumer_after_attempt(cons, o) == IF o = "consumer" THEN cons ELSE "open"
producer_after_attempt(prod, o) == IF o = "ok" THEN "open" ELSE prod

\* self.enable_auto_commit, which the design requires to be off
enable_auto_commit == FALSE

\* DataConsumer.commit_offsets(): whether consumer.commit is called at all
commit_issued(cons) == cons # None /\ ~enable_auto_commit

\* DataConsumer.commit_offsets(): messages_since_commit after the call, commitOk
\* telling whether consumer.commit(asynchronous=False) returned (it raises
\* KafkaException otherwise)
CursorAlwaysReset(cons, cursor, commitOk) == 0
cursor_after_commit(cons, cursor, commitOk) ==
    IF commit_issued(cons) /\ commitOk THEN 0 ELSE cursor

\* the broker's committed position after the call: a synchronous commit without
\* arguments commits the position the consumer has been delivered up to
committed_after_commit(cons, pos, old, commitOk) ==
    IF commit_issued(cons) /\ commitOk THEN pos ELSE old

NoCommit == [issued |-> FALSE]
commit_entry(pos, cursor, commitOk, during) ==
    [issued |-> TRUE, ok |-> commitOk, position |-> pos, cursor |-> cursor,
     during |-> during]

\* the position of the oldest rejected commit since the last accepted one (0: none):
\* the start of the span a later commit has to cover
owed_after_commit(old, pos, commitOk) ==
    IF commitOk THEN 0 ELSE IF old = 0 THEN pos ELSE old

\* the threshold test of process_and_store_batch
commit_needed(cursor) == cursor >= config.offset_commit_frequency

\* a counter that counts the documents written
CountDocuments(cursor, msgs, docs) == cursor + Len(docs)
\* self.messages_since_commit += len(messages)
cursor_after_batch(cursor, msgs, docs) == cursor + Len(msgs)

\* What the broker client answers about one assigned partition in calculate_lag:
\* get_watermark_offsets gives (low, high) or fails (it raises, or returns None, which
\* cannot be unpacked); position([partition])[0] is a TopicPartition object that holds
\* the offset (confluent_kafka), or a bare int (the consumer double of the tests).
Reading(high, type, offset, fails) ==
    [high |-> high, position |-> [type |-> type, offset |-> offset], fails |-> fails]

\* lag = high - position: Python subtracts ints; int - TopicPartition is a TypeError
PartitionLag(p) ==
    IF p.fails THEN [raised |-> TRUE, lag |-> 0]
    ELSE IF p.position.type # "int" THEN [raised |-> TRUE, lag |-> 0]
    ELSE [raised |-> FALSE, lag |-> p.high - p.position.offset]

\* for partition in assignments: ... total_lag += lag
RECURSIVE TotalLag(_, _)
TotalLag(assignments, total_lag) ==
    IF assignments = <<>> THEN [raised |-> FALSE, total |-> total_lag]
    ELSE LET l == PartitionLag(Head(assignments))
         IN  IF l.raised THEN [raised |-> TRUE, total |-> total_lag]
             ELSE TotalLag(Tail(assignments), total_lag + l.lag)

\* DataConsumer.calculate_lag(): the lag gauge after the call, gauge being its value
\* before; everything the call raises, set_consumer_lag included, is swallowed
calculate_lag(cons, gauge, assignments, metricOk) ==
    IF cons = None THEN gauge
    ELSE LET t == TotalLag(assignments, 0)
         IN  IF t.raised \/ ~metricOk THEN gauge ELSE t.total

\* ------------------------------------------------------- initial state
Configs ==
    [max_retries : 0..MaxRetries, retry_backoff_ms : {DEFAULT_BACKOFF_MS, 250},
     batch_size : 1..MaxBatch, offset_commit_frequency : 1..MaxBatch,
     metrics_faulty : {FALSE}]

NoProc == [called |-> FALSE]
NoRet == [fn |-> "none"]

InitCommon ==
    /\ running = FALSE
    /\ consumer = None
    /\ producer = None
    /\ collection = None
    /\ messages = <<>>
    /\ messages_since_commit = 0
    /\ position = 0
    /\ committed = 0
    /\ store = {}
    /\ dlq = <<>>
    /\ clock = 0
    /\ metrics = [processed |-> 0, errors |-> 0, lag |-> 0]
    /\ persisted = {}
    /\ lastCommit = NoCommit
    /\ owed = 0
    /\ lastProc = NoProc
    /\ ins = NoInsert
    /\ calls = 0
    /\ client = None
    /\ conn = NoConn
    /\ signalled = FALSE
    /\ uncommitted = 0
    /\ log = <<>>
    /\ cleanups = 0
    /\ operational = "down"
    /\ last_health_check_time = 0
    /\ instances = <<>>
    /\ indexes = <<>>
    /\ ret = NoRet

\* ------------------------------------------------------- the retry loop, as steps
\* one iteration of the loop of the insert_batch call in progress
InsertBatchIteration ==
    /\ pc = "insert"
    /\ ins.result = "pending"
    /\ \E o \in Outcomes(Len(ins.docs)) :
         LET r == insert_batch_iteration(ins, collection, store, o)
         IN  /\ ins' = r.call
             /\ store' = r.store
    /\ UNCHANGED <<config, pc, running, consumer, producer, collection, messages,
                   messages_since_commit, position, committed, dlq, clock, metrics,
                   persisted, lastCommit, owed, lastProc, calls,
                   client, conn, signalled, ret, indexes, instances,
                   last_health_check_time, operational, cleanups, log, uncommitted>>

\* ------------------------------------------------------- DataConsumer.run
\* values the broker's records carry
BrokerValues ==
    {Value("object", 1), Value("object", NoId), Value("badjson", NoId),
     Value("badutf8", NoId)}

\* a commit threshold of one record, and one of a full batch
PipelineConfigs ==
    [max_retries : {0, 1, 2}, retry_backoff_ms : {DEFAULT_BACKOFF_MS},
     batch_size : {MaxBatch}, offset_commit_frequency : {1, MaxBatch},
     metrics_faulty : {FALSE}]

Init ==
    /\ config \in PipelineConfigs
    /\ pc = "init"
    /\ InitCommon

\* handle_signal(sig, frame): installed by __init__, runs between any two steps of
\* run, from the first one on. The history variable signalled keeps the delivery
\* in the specification that observes it.
SignalDelivered(observed) ==
    /\ pc \notin {"returned", "stopped", "crashed"}
    /\ running' = FALSE
    /\ signalled' = (signalled \/ observed)
    /\ UNCHANGED <<config, pc, consumer, producer, collection, messages,
                   messages_since_commit, position, committed, store, dlq, clock,
                   metrics, persisted, lastCommit, owed, lastProc, ins, calls, client,
                   conn, ret, indexes, instances, last_health_check_time, operational,
                   cleanups, log, uncommitted>>

HandleSignal == SignalDelivered(FALSE)
HandleSignalObserved == SignalDelivered(TRUE)

\* run: if not self.connect_kafka(): return. Where run goes once connect_kafka has
\* returned result.
RunRegardless(result) == "connect_storage"
after_connect_kafka(result) ==
    IF result = "True" THEN "connect_storage" ELSE "returned"

\* One iteration of connect_kafka's loop per step; an attempt that fails may leave
\* self.consumer set. set_active_connections is called inside the try block, whose
\* except clause catches KafkaException only.
RunConnectKafka ==
    /\ pc = "init"
    /\ \E o \in KafkaAttempts, m \in MetricsOutcomes :
         LET c0 == IF conn.fn = "connect_kafka" THEN conn ELSE connect_enter("connect_kafka")
             entered == c0.retry_count < config.max_retries
             c == connect_iteration(c0, o = "ok")
             raised == entered /\ o = "ok" /\ ~m
         IN  /\ consumer' = IF entered THEN consumer_after_attempt(consumer, o) ELSE consumer
             /\ producer' = IF entered THEN producer_after_attempt(producer, o) ELSE producer
             /\ conn' = IF raised THEN [c EXCEPT !.result = "raise"] ELSE c
             /\ pc' = IF raised THEN "crashed"
                      ELSE IF c.result = "pending" THEN "init"
                      ELSE after_connect_kafka(c.result)
    /\ UNCHANGED <<config, running, collection, messages, messages_since_commit,
                   position, committed, store, dlq, clock, metrics, persisted,
                   lastCommit, owed, lastProc, ins, calls, client, signalled, ret,
                   indexes, instances, last_health_check_time, operational, cleanups,
                   log, uncommitted>>

\* run: if not self.storage.connect(): log; then self.running = True
\* One iteration of storage.connect's loop per step.
RunConnectStorage ==
    /\ pc = "connect_storage"
    /\ \E o \in StorageAttempts :
         LET c0 == IF conn.fn = "storage.connect" THEN conn
                   ELSE connect_enter("storage.connect")
             entered == c0.retry_count < config.max_retries
             c == connect_iteration(c0, o = "ok")
         IN  /\ client' = IF entered THEN client_after_attempt(client, o) ELSE client
             /\ collection' = IF entered THEN collection_after_attempt(collection, o)
                              ELSE collection
             /\ conn' = c
             /\ pc' = IF c.result = "pending" THEN "connect_storage" ELSE "loop"
             /\ running' = IF c.result = "pending" THEN running ELSE TRUE
    /\ UNCHANGED <<config, consumer, producer, messages, messages_since_commit,
                   position, committed, store, dlq, clock, metrics, persisted,
                   lastCommit, owed, lastProc, ins, calls, signalled, ret, indexes,
                   instances, last_health_check_time, operational, cleanups, log,
                   uncommitted>>

\* run: while self.running: ... messages = self.consume_batch()
RunLoopEnter ==
    /\ pc = "loop"
    /\ running
    /\ pc' = "consume"
    /\ conn' = NoConn
    /\ UNCHANGED <<config, running, consumer, producer, collection, messages,
                   messages_since_commit, position, committed, store, dlq, clock,
                   metrics, persisted, lastCommit, owed, lastProc, ins, calls, client,
                   signalled, ret, indexes, instances, last_health_check_time,
                   operational, cleanups, log, uncommitted>>

\* a run that returns from its loop without the cleanup
ExitWithoutDraining ==
    /\ pc = "loop"
    /\ ~running
    /\ pc' = "stopped"
    /\ conn' = NoConn
    /\ UNCHANGED <<config, running, consumer, producer, collection, messages,
                   messages_since_commit, position, committed, store, dlq, clock,
                   metrics, persisted, lastCommit, owed, lastProc, ins, calls, client,
                   signalled, ret, indexes, instances, last_health_check_time,
                   operational, cleanups, log, uncommitted>>

\* run: the while test fails: on to the cleanup
RunLoopExit ==
    /\ pc = "loop"
    /\ ~running
    /\ pc' = "final_commit"
    /\ conn' = NoConn
    /\ UNCHANGED <<config, running, consumer, producer, collection, messages,
                   messages_since_commit, position, committed, store, dlq, clock,
                   metrics, persisted, lastCommit, owed, lastProc, ins, calls, client,
                   signalled, ret, indexes, instances, last_health_check_time,
                   operational, cleanups, log, uncommitted>>

\* a consume_batch that polls without looking at the running flag
PollWhileStopping == pc = "consume" /\ Len(messages) < config.batch_size

\* consume_batch: the loop goes on while message_count < batch_size and running
CanPoll == pc = "consume" /\ Len(messages) < config.batch_size /\ running

\* consume_batch: poll returns a record
PollRecord ==
    /\ CanPoll
    /\ position < MaxOffset
    /\ \E v \in BrokerValues :
         messages' = Append(messages,
                            [offset |-> position + 1, partition |-> 0, topic |-> TOPIC,
                             key |-> KeyOf(position + 1), value |-> v])
    /\ position' = position + 1
    /\ UNCHANGED <<config, pc, running, consumer, producer, collection,
                   messages_since_commit, committed, store, dlq, clock, metrics,
                   persisted, lastCommit, owed, lastProc, ins, calls, client, conn,
                   signalled, ret, indexes, instances, last_health_check_time,
                   operational, cleanups, log, uncommitted>>

\* consume_batch: poll returns an event whose error() is set; a partition EOF is
\* skipped, any other error is counted and skipped
PollError ==
    /\ CanPoll
    /\ metrics.errors < MaxErrors
    /\ \E eof \in BOOLEAN, m \in MetricsOutcomes :
         /\ metrics' = IF ~eof /\ m THEN increment_processing_errors(metrics) ELSE metrics
         /\ pc' = IF ~eof /\ ~m THEN "except" ELSE pc
    /\ UNCHANGED <<config, running, consumer, producer, collection, messages,
                   messages_since_commit, position, committed, store, dlq, clock,
                   persisted, lastCommit, owed, lastProc, ins, calls, client, conn,
                   signalled, ret, indexes, instances, last_health_check_time,
                   operational, cleanups, log, uncommitted>>

\* consume_batch: consumer.poll raises; the exception leaves consume_batch, with the
\* records it had collected, and is caught by the except clause of the loop
PollRaise ==
    /\ CanPoll
    /\ metrics.errors < MaxErrors
    /\ pc' = "except"
    /\ UNCHANGED <<config, running, consumer, producer, collection, messages,
                   messages_since_commit, position, committed, store, dlq, clock,
                   metrics, persisted, lastCommit, owed, lastProc, ins, calls, client,
                   conn, signalled, ret, indexes, instances, last_health_check_time,
                   operational, cleanups, log, uncommitted>>

\* a run without its `if messages:` before process_and_store_batch
ProcessEveryBatch ==
    /\ pc = "consume"
    /\ pc' = "process"
    /\ UNCHANGED <<config, running, consumer, producer, collection, messages,
                   messages_since_commit, position, committed, store, dlq, clock,
                   metrics, persisted, lastCommit, owed, lastProc, ins, calls, client,
                   conn, signalled, ret, indexes, instances, last_health_check_time,
                   operational, cleanups, log, uncommitted>>

\* consume_batch returns: the batch is full, the consumer was told to stop, or poll
\* returned None; it observes the batch size if it got messages, and run goes on to
\* the process phase if it got messages
ConsumeReturn ==
    /\ pc = "consume"
    /\ \E m \in MetricsOutcomes :
         pc' = IF messages = <<>> THEN "lag" ELSE IF m THEN "process" ELSE "except"
    /\ UNCHANGED <<config, running, consumer, producer, collection, messages,
                   messages_since_commit, position, committed, store, dlq, clock,
                   metrics, persisted, lastCommit, owed, lastProc, ins, calls, client,
                   conn, signalled, ret, indexes, instances, last_health_check_time,
                   operational, cleanups, log, uncommitted>>

Summary(result, docs, added, commit) ==
    [called |-> TRUE, result |-> result, transformed |-> Len(docs),
     cursorBefore |-> messages_since_commit, cursorAdded |-> added,
     commit |-> commit, dlqBefore |-> Len(dlq),
     processedBefore |-> metrics.processed, errorsBefore |-> metrics.errors]

\* process_and_store_batch(messages), up to the call of insert_batch; with nothing
\* transformed it returns True at once
ProcessBegin ==
    /\ pc = "process"
    /\ clock' = clock + 1
    /\ LET docs == process_batch(messages, clock + 1)
       IN  IF docs = <<>>
           THEN /\ pc' = "lag"
                /\ lastProc' = Summary("True", docs, messages_since_commit, "none")
                /\ ins' = ins
           ELSE /\ pc' = "insert"
                /\ ins' = insert_batch_enter(docs, store)
                /\ lastProc' = lastProc
    /\ UNCHANGED <<config, running, consumer, producer, collection, messages,
                   messages_since_commit, position, committed, store, dlq, metrics,
                   persisted, lastCommit, owed, calls, client, conn, signalled, ret,
                   indexes, instances, last_health_check_time, operational, cleanups,
                   log, uncommitted>>

\* insert_batch raised: the exception leaves process_and_store_batch and is caught
\* by the except Exception clause of the loop
ProcessRaise ==
    /\ pc = "insert"
    /\ ins.result = "raise"
    /\ pc' = "except"
    /\ lastProc' = Summary("raise", ins.docs, messages_since_commit, "none")
    /\ UNCHANGED <<config, running, consumer, producer, collection, messages,
                   messages_since_commit, position, committed, store, dlq, clock,
                   metrics, persisted, lastCommit, owed, ins, calls, client, conn,
                   signalled, ret, indexes, instances, last_health_check_time,
                   operational, cleanups, log, uncommitted>>

\* a process phase that runs the threshold commit after dead-lettering a batch
CommitAfterDeadLetter ==
    /\ pc = "insert"
    /\ storage_failed(ins.result)
    /\ \E produceOks \in [1..Len(messages) -> BOOLEAN] :
         dlq' = dlq \o dead_letter_all(producer, messages, clock, produceOks)
    /\ \E commitOk \in BOOLEAN :
         LET commits == commit_needed(messages_since_commit) /\ commit_issued(consumer)
         IN  /\ messages_since_commit' =
                    IF commits
                    THEN cursor_after_commit(consumer, messages_since_commit, commitOk)
                    ELSE messages_since_commit
             /\ committed' = IF commits
                             THEN committed_after_commit(consumer, position, committed,
                                                         commitOk)
                             ELSE committed
             /\ lastCommit' = IF commits
                              THEN commit_entry(position, messages_since_commit,
                                                commitOk, "running")
                              ELSE lastCommit
             /\ owed' = IF commits THEN owed_after_commit(owed, position, commitOk)
                        ELSE owed
             /\ uncommitted' = IF commits /\ commitOk THEN 0 ELSE uncommitted
             /\ lastProc' = Summary("False", ins.docs, messages_since_commit,
                                    IF ~commits THEN "none"
                                    ELSE IF commitOk THEN "ok" ELSE "failed")
    /\ pc' = "lag"
    /\ UNCHANGED <<config, running, consumer, producer, collection, messages, position,
                   store, clock, metrics, persisted, ins, calls, client, conn, signalled,
                   ret, indexes, instances, last_health_check_time, operational,
                   cleanups, log>>

\* insert_batch returned a falsy value: every message of the batch goes to
\* send_to_dead_letter, and process_and_store_batch returns False
ProcessStorageFailure ==
    /\ pc = "insert"
    /\ storage_failed(ins.result)
    /\ \E produceOks \in [1..Len(messages) -> BOOLEAN] :
         dlq' = dlq \o dead_letter_all(producer, messages, clock, produceOks)
    /\ lastProc' = Summary("False", ins.docs, messages_since_commit, "none")
    /\ pc' = "lag"
    /\ UNCHANGED <<config, running, consumer, producer, collection, messages,
                   messages_since_commit, position, committed, store, clock, metrics,
                   persisted, lastCommit, owed, ins, calls, client, conn, signalled,
                   ret, indexes, instances, last_health_check_time, operational,
                   cleanups, log, uncommitted>>

\* insert_batch returned True: metrics, the commit counter, the threshold commit.
\* m1, m2, m3 tell whether increment_messages_processed, observe_mongodb_write_time
\* and (in commit_offsets) observe_offset_commit_time return; what they raise leaves
\* process_and_store_batch and is caught by the except clause of the loop.
ProcessSuccess ==
    /\ pc = "insert"
    /\ ins.result = "True"
    /\ persisted' = persisted \cup {ins.docs[i].src : i \in 1..Len(ins.docs)}
    /\ \E m1 \in MetricsOutcomes, m2 \in MetricsOutcomes, m3 \in MetricsOutcomes,
          commitOk \in BOOLEAN :
         LET added == cursor_after_batch(messages_since_commit, messages, ins.docs)
             counted == m1 /\ m2
             commits == counted /\ commit_needed(added) /\ commit_issued(consumer)
             raised == ~counted \/ (commits /\ commitOk /\ ~m3)
         IN  /\ metrics' = IF m1 THEN [metrics EXCEPT !.processed = @ + Len(ins.docs)]
                           ELSE metrics
             /\ messages_since_commit' =
                    IF ~counted THEN messages_since_commit
                    ELSE IF commit_needed(added)
                    THEN cursor_after_commit(consumer, added, commitOk)
                    ELSE added
             /\ committed' = IF commits
                             THEN committed_after_commit(consumer, position, committed,
                                                         commitOk)
                             ELSE committed
             /\ lastCommit' = IF commits
                              THEN commit_entry(position, added, commitOk, "running")
                              ELSE lastCommit
             /\ owed' = IF commits THEN owed_after_commit(owed, position, commitOk)
                        ELSE owed
             /\ lastProc' = Summary(IF raised THEN "raise" ELSE "True", ins.docs,
                                    IF counted THEN added ELSE messages_since_commit,
                                    IF ~commits THEN "none"
                                    ELSE IF commitOk THEN "ok" ELSE "failed")
             /\ uncommitted' = IF commits /\ commitOk THEN 0
                               ELSE uncommitted + Len(messages)
             /\ pc' = IF raised THEN "except" ELSE "lag"
    /\ UNCHANGED <<config, running, consumer, producer, collection, messages, position,
                   store, dlq, clock, ins, calls, client, conn, signalled, ret,
                   indexes, instances, last_health_check_time, operational, cleanups,
                   log>>

\* the iteration's locals (the batch, the calls' records) end with the iteration
IterationEnds ==
    /\ messages' = <<>>
    /\ lastProc' = NoProc
    /\ ins' = NoInsert

\* what the broker client answers to calculate_lag in a run: no partition assigned
\* yet, or the topic's partition with its high watermark and the consumer's position
LagReadings ==
    {<<>>} \cup {<<Reading(MaxOffset, "TopicPartition", position, fails)>> :
                    fails \in BOOLEAN}

\* run: self.calculate_lag(), which swallows its own errors
RunCalculateLag ==
    /\ pc = "lag"
    /\ \E a \in LagReadings, m \in MetricsOutcomes :
         metrics' = [metrics EXCEPT !.lag = calculate_lag(consumer, @, a, m)]
    /\ pc' = "loop"
    /\ IterationEnds
    /\ UNCHANGED <<config, running, consumer, producer, collection,
                   messages_since_commit, position, committed, store, dlq, clock,
                   persisted, lastCommit, owed, calls, client, conn, signalled, ret,
                   indexes, instances, last_health_check_time, operational, cleanups,
                   log, uncommitted>>

\* run: except Exception: log, count the error, and go to sleep; what
\* increment_processing_errors raises here leaves run
RunExcept ==
    /\ pc = "except"
    /\ \E m \in MetricsOutcomes :
         /\ metrics' = IF m THEN increment_processing_errors(metrics) ELSE metrics
         /\ pc' = IF m THEN "pause" ELSE "crashed"
    /\ IterationEnds
    /\ UNCHANGED <<config, running, consumer, producer, collection,
                   messages_since_commit, position, committed, store, dlq, clock,
                   persisted, lastCommit, owed, calls, client, conn, signalled, ret,
                   indexes, instances, last_health_check_time, operational, cleanups,
                   log, uncommitted>>

\* run: time.sleep(1) of the except clause returns, and the loop tests its condition
RunPause ==
    /\ pc = "pause"
    /\ pc' = "loop"
    /\ UNCHANGED <<config, running, consumer, producer, collection, messages,
                   messages_since_commit, position, committed, store, dlq, clock,
                   metrics, persisted, lastCommit, owed, lastProc, ins, calls, client,
                   conn, signalled, ret, indexes, instances, last_health_check_time,
                   operational, cleanups, log, uncommitted>>

\* run, after the loop: if self.messages_since_commit > 0: self.commit_offsets();
\* what observe_offset_commit_time raises leaves commit_offsets and run
RunFinalCommit ==
    /\ pc = "final_commit"
    /\ \E commitOk \in BOOLEAN, m \in MetricsOutcomes :
         LET commits == messages_since_commit > 0 /\ commit_issued(consumer)
         IN  /\ messages_since_commit' =
                    IF commits
                    THEN cursor_after_commit(consumer, messages_since_commit, commitOk)
                    ELSE messages_since_commit
             /\ committed' = IF commits
                             THEN committed_after_commit(consumer, position, committed,
                                                         commitOk)
                             ELSE committed
             /\ lastCommit' = IF commits
                              THEN commit_entry(position, messages_since_commit,
                                                commitOk, "draining")
                              ELSE lastCommit
             /\ owed' = IF commits THEN owed_after_commit(owed, position, commitOk)
                        ELSE owed
             /\ uncommitted' = IF commits /\ commitOk THEN 0 ELSE uncommitted
             /\ pc' = IF commits /\ commitOk /\ ~m THEN "crashed" ELSE "close"
    /\ UNCHANGED <<config, running, consumer, producer, collection, messages, position,
                   store, dlq, clock, metrics, persisted, lastProc, ins, calls, client,
                   conn, signalled, ret, indexes, instances, last_health_check_time,
                   operational, cleanups, log>>

\* run, after the loop: if self.consumer: self.consumer.close()
RunCloseConsumer ==
    /\ pc = "close"
    /\ consumer' = IF consumer # None THEN "closed" ELSE consumer
    /\ pc' = "flush"
    /\ UNCHANGED <<config, running, producer, collection, messages,
                   messages_since_commit, position, committed, store, dlq, clock,
                   metrics, persisted, lastCommit, owed, lastProc, ins, calls, client,
                   conn, signalled, ret, indexes, instances, last_health_check_time,
                   operational, cleanups, log, uncommitted>>

\* run, after the loop: if self.producer: self.producer.flush()
RunFlushProducer ==
    /\ pc = "flush"
    /\ producer' = IF producer # None THEN "flushed" ELSE producer
    /\ pc' = "close_storage"
    /\ UNCHANGED <<config, running, consumer, collection, messages,
                   messages_since_commit, position, committed, store, dlq, clock,
                   metrics, persisted, lastCommit, owed, lastProc, ins, calls, client,
                   conn, signalled, ret, indexes, instances, last_health_check_time,
                   operational, cleanups, log, uncommitted>>

\* run, after the loop: self.storage.close(), and run returns
RunCloseStorage ==
    /\ pc = "close_storage"
    /\ client' = client_after_close(client)
    /\ collection' = IF collection # None THEN "closed" ELSE collection
    /\ pc' = "stopped"
    /\ UNCHANGED <<config, running, consumer, producer, messages,
                   messages_since_commit, position, committed, store, dlq, clock,
                   metrics, persisted, lastCommit, owed, lastProc, ins, calls, conn,
                   signalled, ret, indexes, instances, last_health_check_time,
                   operational, cleanups, log, uncommitted>>

\* the steps of run
RunStep ==
    \/ RunConnectKafka
    \/ RunConnectStorage
    \/ RunLoopEnter
    \/ RunLoopExit
    \/ PollRecord
    \/ PollError
    \/ PollRaise
    \/ ConsumeReturn
    \/ ProcessBegin
    \/ InsertBatchIteration
    \/ ProcessRaise
    \/ ProcessStorageFailure
    \/ ProcessSuccess
    \/ RunCalculateLag
    \/ RunExcept
    \/ RunPause
    \/ RunFinalCommit
    \/ RunCloseConsumer
    \/ RunFlushProducer
    \/ RunCloseStorage

Next == HandleSignal \/ RunStep

Spec == Init /\ [][Next]_vars

\* run with every blocking call returning (run always takes its next step) and
\* with signal deliveries observed
NextLive == HandleSignalObserved \/ RunStep

SpecLive == Init /\ [][NextLive]_vars /\ WF_vars(RunStep)

\* run with a metrics sink whose calls may raise
MetricsConfigs ==
    [max_retries : {1}, retry_backoff_ms : {DEFAULT_BACKOFF_MS},
     batch_size : {MaxBatch}, offset_commit_frequency : 1..MaxBatch,
     metrics_faulty : {TRUE}]

InitMetrics ==
    /\ config \in MetricsConfigs
    /\ pc = "init"
    /\ InitCommon

SpecMetrics == InitMetrics /\ [][Next]_vars

\* ------------------------------------------------------- SpecConnect
\* The connection phase of run (connect_kafka, then storage.connect) under every
\* configuration of the retry policy, with signals delivered while it connects.
InitConnect ==
    /\ config \in Configs
    /\ config.batch_size = 1 /\ config.offset_commit_frequency = 1
    /\ pc = "init"
    /\ InitCommon

NextConnect == HandleSignalObserved \/ RunConnectKafka \/ RunConnectStorage

SpecConnect == InitConnect /\ [][NextConnect]_vars

\* ------------------------------------------------------- SpecStorage
InitStorage ==
    /\ config \in Configs
    /\ config.batch_size = 1 /\ config.offset_commit_frequency = 1
    /\ pc = "insert"
    /\ InitCommon

\* a caller hands a connected handler a batch: the n-th call passes documents
\* transformed at time n (any identifiers, repeated or not, or none; an unordered
\* insert treats every order of a batch alike, so batches are listed in one order)
StorageCall ==
    /\ ins.result # "pending"
    /\ calls < MaxCalls
    /\ \E n \in 0..MaxDocs :
       \E ids \in {f \in [1..n -> Ids \cup {NoId}] :
                      \A i \in 1..n, j \in 1..n : i < j => f[i] <= f[j]} :
         LET docs == [i \in 1..n |-> [id |-> ids[i], src |-> 10 * (calls + 1) + i,
                                      received_at |-> calls + 1]]
         IN  ins' = insert_batch_enter(docs, store)
    /\ calls' = calls + 1
    /\ collection' = "open"
    /\ UNCHANGED <<config, pc, running, consumer, producer, messages,
                   messages_since_commit, position, committed, store, dlq, clock,
                   metrics, persisted, lastCommit, owed, lastProc,
                   client, conn, signalled, ret, indexes, instances,
                   last_health_check_time, operational, cleanups, log, uncommitted>>

NextStorage == StorageCall \/ InsertBatchIteration

SpecStorage == InitStorage /\ [][NextStorage]_vars

\* ------------------------------------------------------- SpecIndexes
\* Several consumer instances call storage.connect on the same collection, any
\* number of times, their create_indexes interleaving at the two requests it sends.
Instances == {1, 2}

InitIndexes ==
    /\ config \in Configs
    /\ config.max_retries > 0
    /\ config.batch_size = 1 /\ config.offset_commit_frequency = 1
    /\ pc = "init"
    /\ running = FALSE
    /\ consumer = None
    /\ producer = None
    /\ collection = None
    /\ messages = <<>>
    /\ messages_since_commit = 0
    /\ position = 0
    /\ committed = 0
    /\ store = {}
    /\ dlq = <<>>
    /\ clock = 0
    /\ metrics = [processed |-> 0, errors |-> 0, lag |-> 0]
    /\ persisted = {}
    /\ lastCommit = NoCommit
    /\ owed = 0
    /\ lastProc = NoProc
    /\ ins = NoInsert
    /\ calls = 0
    /\ client = None
    /\ conn = NoConn
    /\ signalled = FALSE
    /\ uncommitted = 0
    /\ log = <<>>
    /\ cleanups = 0
    /\ operational = "down"
    /\ last_health_check_time = 0
    /\ ret = NoRet
    /\ indexes \in {<<ID_INDEX>>, <<ID_INDEX, CREATED_AT_1>>,
                    <<ID_INDEX, [name |-> "by_created", key |-> "created_at"]>>}
    /\ instances = [i \in Instances |-> NoInstance]

\* create_indexes returns inside the attempt of connect that called it: connect
\* returns True unless an exception reached its try block
connect_after_indexes(o) ==
    connect_iteration(connect_enter("storage.connect"), ~create_indexes_raises(o))

\* connect, up to and including the listing of create_indexes: MongoClient and the
\* ping go through, list_indexes answers with the indexes of this moment or raises
ListIndexes(i) ==
    /\ instances[i].pc = "idle"
    /\ instances[i].calls < MaxCalls
    /\ \E o \in IndexOutcomes :
         instances' = [instances EXCEPT ![i] =
           IF o = "ok" /\ creation_needed(index_names(indexes))
           THEN [@ EXCEPT !.pc = "listed", !.calls = @ + 1, !.erred = FALSE,
                          !.seen = index_names(indexes),
                          !.conn = connect_enter("storage.connect")]
           ELSE [@ EXCEPT !.calls = @ + 1, !.erred = (o = "error"),
                          !.seen = IF o = "ok" THEN index_names(indexes) ELSE {},
                          !.conn = connect_after_indexes(o)]]
    /\ UNCHANGED <<config, pc, running, consumer, producer, collection, messages,
                   messages_since_commit, position, committed, store, dlq, clock,
                   metrics, persisted, lastCommit, owed, lastProc, ins, calls, client,
                   conn, signalled, ret, indexes, last_health_check_time, operational,
                   cleanups, log, uncommitted>>

\* the create_index request and the return of create_indexes and of connect: the
\* request can fail on its way, or be refused by the server
CreateIndex(i) ==
    /\ instances[i].pc = "listed"
    /\ \E o \in IndexOutcomes :
         LET refused == create_index_refused(indexes, CREATED_AT_1)
             e == IF refused THEN "error" ELSE o
         IN  /\ indexes' = IF e = "ok" THEN create_index(indexes, CREATED_AT_1)
                           ELSE indexes
             /\ instances' = [instances EXCEPT ![i] =
                   [@ EXCEPT !.pc = "idle", !.issued = @ + 1, !.erred = (e = "error"),
                             !.conn = connect_after_indexes(e)]]
    /\ UNCHANGED <<config, pc, running, consumer, producer, collection, messages,
                   messages_since_commit, position, committed, store, dlq, clock,
                   metrics, persisted, lastCommit, owed, lastProc, ins, calls, client,
                   conn, signalled, ret, last_health_check_time, operational, cleanups,
                   log, uncommitted>>

NextIndexes == \E i \in Instances : ListIndexes(i) \/ CreateIndex(i)

SpecIndexes == InitIndexes /\ [][NextIndexes]_vars

\* ------------------------------------------------------- SpecCalls
\* The functions of the pipeline called on their own: process_batch,
\* send_to_dead_letter, the dead-letter loop of process_and_store_batch,
\* calculate_lag, consume_batch, insert_batch and process_and_store_batch. The initial state holds the call to make (ret, with its arguments
\* drawn from bounded sets) and the objects it works on; the call is then made.

\* the values a message handed to the transformer can carry
AllValues ==
    {Value(k, NoId) : k \in ValueKinds} \cup {Value("object", i) : i \in Ids}

\* the messages a caller can pass: n records of one partition, at offsets 1..n
Message(o, v) ==
    [offset |-> o, partition |-> 0, topic |-> TOPIC, key |-> KeyOf(o), value |-> v]
Batches(n, values) ==
    {[i \in 1..n |-> Message(i, vs[i])] : vs \in [1..n -> values]}

\* what the broker client can answer about a partition: the partitions of the lag
\* example, with either kind of position and with or without a failure
Readings ==
    {Reading(h.high, type, h.offset, fails) :
        h \in {[high |-> 200, offset |-> 150], [high |-> 350, offset |-> 300]},
        type \in {"int", "TopicPartition"}, fails \in BOOLEAN}
Assignments ==
    {<<>>} \cup {<<p>> : p \in Readings} \cup {<<p, q>> : p \in Readings, q \in Readings}

\* the documents a caller can hand to insert_batch: n documents, with or without id
Documents(n) ==
    {[i \in 1..n |-> [id |-> ids[i], src |-> i, received_at |-> 1]] :
        ids \in [1..n -> Ids \cup {NoId}]}

Calls ==
    UNION {
      {[fn |-> "process_batch", done |-> FALSE, messages |-> msgs] :
          msgs \in UNION {Batches(n, AllValues) : n \in 0..MaxLen}},
      {[fn |-> "send_to_dead_letter", done |-> FALSE, message |-> Message(1, v),
        produceOk |-> ok] :
          v \in AllValues \ {Value("nomessage", NoId)}, ok \in BOOLEAN},
      UNION {{[fn |-> "dead_letter_all", done |-> FALSE, messages |-> msgs,
               produceOks |-> oks] :
                 msgs \in Batches(n, BrokerValues), oks \in [1..n -> BOOLEAN]} :
             n \in 1..MaxDocs},
      {[fn |-> "calculate_lag", done |-> FALSE, assignments |-> a, metricOk |-> m] :
          a \in Assignments, m \in BOOLEAN},
      {[fn |-> "consume_batch", done |-> FALSE, polls |-> polls] :
          polls \in UNION {[1..n -> PollKinds] : n \in 0..MaxLen}},
      UNION {{[fn |-> "insert_batch", done |-> FALSE, docs |-> docs, outcomes |-> <<o>>] :
                 docs \in Documents(n), o \in Outcomes(n)} : n \in 0..1},
      {[fn |-> "process_and_store_batch", done |-> FALSE, messages |-> msgs] :
          msgs \in UNION {Batches(n, BrokerValues) : n \in 0..MaxBatch}} }

InitCalls ==
    /\ config \in {c \in PipelineConfigs :
                      c.max_retries = 1 /\ c.offset_commit_frequency = 1}
    /\ ret \in Calls
    /\ pc = "call"
    /\ running \in (IF ret.fn = "consume_batch" THEN BOOLEAN ELSE {FALSE})
    /\ consumer \in {None, "open"}
    /\ producer \in {None, "open"}
    /\ collection \in (IF ret.fn \in {"insert_batch", "process_and_store_batch"}
                       THEN {None, "open"} ELSE {None})
    /\ messages = <<>>
    /\ messages_since_commit \in (IF ret.fn = "process_and_store_batch"
                                  THEN {0, 1} ELSE {0})
    /\ position = 0
    /\ committed = 0
    /\ store = {}
    /\ dlq = <<>>
    /\ clock = 1
    /\ metrics \in {[processed |-> 0, errors |-> 0, lag |-> g] : g \in {0, 7}}
    /\ persisted = {}
    /\ lastCommit = NoCommit
    /\ owed = 0
    /\ lastProc = NoProc
    /\ ins = NoInsert
    /\ calls = 0
    /\ client = None
    /\ conn = NoConn
    /\ signalled = FALSE
    /\ uncommitted = 0
    /\ log = <<>>
    /\ cleanups = 0
    /\ operational = "down"
    /\ last_health_check_time = 0
    /\ instances = <<>>
    /\ indexes = <<>>

\* the record of a finished call: what it returned and what it started from
Returned(result) ==
    [ret EXCEPT !.done = TRUE] @@
    [result |-> result, dlqBefore |-> Len(dlq), gaugeBefore |-> metrics.lag,
     errorsBefore |-> metrics.errors, cursorBefore |-> messages_since_commit]

\* processor.process_batch(messages)
CallProcessBatch ==
    /\ ret.fn = "process_batch" /\ ~ret.done
    /\ ret' = Returned(process_batch(ret.messages, clock))
    /\ UNCHANGED <<config, pc, running, consumer, producer, collection, messages,
                   messages_since_commit, position, committed, store, dlq, clock,
                   metrics, persisted, lastCommit, owed, lastProc, ins, calls, client,
                   conn, signalled, indexes, instances, last_health_check_time,
                   operational, cleanups, log, uncommitted>>

\* self.send_to_dead_letter(message, error)
CallSendToDeadLetter ==
    /\ ret.fn = "send_to_dead_letter" /\ ~ret.done
    /\ LET r == send_to_dead_letter(producer, ret.message, STORAGE_FAILURE, clock,
                                    ret.produceOk)
       IN  /\ dlq' = dlq \o r.published
           /\ ret' = Returned(r.ok)
    /\ UNCHANGED <<config, pc, running, consumer, producer, collection, messages,
                   messages_since_commit, position, committed, store, clock, metrics,
                   persisted, lastCommit, owed, lastProc, ins, calls, client, conn,
                   signalled, indexes, instances, last_health_check_time, operational,
                   cleanups, log, uncommitted>>

\* for message in messages: self.send_to_dead_letter(message, "MongoDB storage failure")
CallDeadLetterAll ==
    /\ ret.fn = "dead_letter_all" /\ ~ret.done
    /\ dlq' = dlq \o dead_letter_all(producer, ret.messages, clock, ret.produceOks)
    /\ ret' = Returned(None)
    /\ UNCHANGED <<config, pc, running, consumer, producer, collection, messages,
                   messages_since_commit, position, committed, store, clock, metrics,
                   persisted, lastCommit, owed, lastProc, ins, calls, client, conn,
                   signalled, indexes, instances, last_health_check_time, operational,
                   cleanups, log, uncommitted>>

\* self.calculate_lag()
CallCalculateLag ==
    /\ ret.fn = "calculate_lag" /\ ~ret.done
    /\ metrics' = [metrics EXCEPT
                      !.lag = calculate_lag(consumer, @, ret.assignments, ret.metricOk)]
    /\ ret' = Returned(None)
    /\ UNCHANGED <<config, pc, running, consumer, producer, collection, messages,
                   messages_since_commit, position, committed, store, dlq, clock,
                   persisted, lastCommit, owed, lastProc, ins, calls, client, conn,
                   signalled, indexes, instances, last_health_check_time, operational,
                   cleanups, log, uncommitted>>

\* self.storage.insert_batch(documents)
CallInsertBatch ==
    /\ ret.fn = "insert_batch" /\ ~ret.done
    /\ LET r == insert_batch(insert_batch_enter(ret.docs, store), collection, store,
                             ret.outcomes)
       IN  /\ ins' = r.call
           /\ store' = r.store
           /\ ret' = Returned(r.call.result)
    /\ UNCHANGED <<config, pc, running, consumer, producer, collection, messages,
                   messages_since_commit, position, committed, dlq, clock, metrics,
                   persisted, lastCommit, owed, lastProc, calls, client, conn,
                   signalled, indexes, instances, last_health_check_time, operational,
                   cleanups, log, uncommitted>>

\* self.process_and_store_batch(messages): `if not messages: return True`; with
\* messages the call goes on as the process phase of run does, step by step, and
\* lastProc tells how it ended
CallProcessAndStoreBatch ==
    /\ ret.fn = "process_and_store_batch" /\ ~ret.done
    /\ IF ret.messages = <<>>
       THEN /\ ret' = Returned("True")
            /\ UNCHANGED <<pc, messages>>
       ELSE /\ ret' = Returned("pending")
            /\ messages' = ret.messages
            /\ pc' = "process"
    /\ UNCHANGED <<config, running, consumer, producer, collection,
                   messages_since_commit, position, committed, store, dlq, clock,
                   metrics, persisted, lastCommit, owed, lastProc, ins, calls, client,
                   conn, signalled, indexes, instances, last_health_check_time,
                   operational, cleanups, log, uncommitted>>

\* self.consume_batch(), on a connected consumer
CallConsumeBatch ==
    /\ ret.fn = "consume_batch" /\ ~ret.done
    /\ consumer # None
    /\ LET r == consume_batch(ret.polls, 1, <<>>, metrics, running)
       IN  /\ metrics' = r.counters
           /\ position' = Cardinality({i \in 1..r.polled :
                                          i <= Len(ret.polls) /\ ret.polls[i] = "record"})
           /\ ret' = Returned(r.messages)
    /\ UNCHANGED <<config, pc, running, consumer, producer, collection, messages,
                   messages_since_commit, committed, store, dlq, clock, persisted,
                   lastCommit, owed, lastProc, ins, calls, client, conn, signalled,
                   indexes, instances, last_health_check_time, operational, cleanups,
                   log, uncommitted>>

NextCalls ==
    \/ CallProcessBatch
    \/ CallConsumeBatch
    \/ CallSendToDeadLetter
    \/ CallDeadLetterAll
    \/ CallCalculateLag
    \/ CallInsertBatch
    \/ CallProcessAndStoreBatch
    \/ ProcessBegin
    \/ InsertBatchIteration
    \/ ProcessRaise
    \/ ProcessStorageFailure
    \/ ProcessSuccess

SpecCalls == InitCalls /\ [][NextCalls]_vars

\* ------------------------------------------------------- producer.py
\* @retry(exceptions=KafkaError, tries=3, delay=3, backoff=2) on send_message: the
\* retry package calls the function again after a KafkaError, up to TRIES calls,
\* sleeping DELAY seconds before the second call and BACKOFF times as long before
\* each later one; the exception of the last call is raised to the caller.
TRIES == 3
DELAY == 3
BACKOFF == 2

\* what one call of the undecorated send_message meets: producer.send and
\* future.get go through, raise a KafkaError, or raise another exception
SendOutcomes == {"ok", "KafkaError", "Exception"}

\* the counters of ProducerMetrics and the sleeps of the retry decorator
NoSends == [attempts |-> 0, sent |-> 0, failures |-> 0, sleeps |-> <<>>]

\* a send_message whose decorator retries after every exception
RECURSIVE RetryEveryException(_, _, _, _)
RetryEveryException(os, tries, delay, acc) ==
    LET tried == [acc EXCEPT !.attempts = @ + 1]
        failed == [tried EXCEPT !.failures = @ + 1]
    IN  IF Head(os) = "ok"
        THEN [result |-> "True", counters |-> [tried EXCEPT !.sent = @ + 1]]
        ELSE IF tries - 1 = 0
        THEN [result |-> IF Head(os) = "Exception" THEN "False" ELSE "raise",
              counters |-> failed]
        ELSE RetryEveryException(Tail(os), tries - 1, delay * BACKOFF,
                                 [failed EXCEPT !.sleeps = Append(@, delay)])

\* send_message(key, value, headers) with its decorator: os lists what the successive
\* calls meet, tries and delay are the decorator's remaining calls and next delay, acc
\* the counters so far. result is "True", "False", or "raise" for a KafkaError that
\* leaves the decorated function.
RECURSIVE send_message(_, _, _, _)
send_message(os, tries, delay, acc) ==
    LET tried == [acc EXCEPT !.attempts = @ + 1]
        failed == [tried EXCEPT !.failures = @ + 1]
    IN  IF Head(os) = "ok"
        THEN [result |-> "True", counters |-> [tried EXCEPT !.sent = @ + 1]]
        ELSE IF Head(os) = "Exception"
        THEN [result |-> "False", counters |-> failed]
        ELSE IF tries - 1 = 0
        THEN [result |-> "raise", counters |-> failed]
        ELSE send_message(Tail(os), tries - 1, delay * BACKOFF,
                          [failed EXCEPT !.sleeps = Append(@, delay)])

\* send_batch(batch): the loop over the batch from message i on, successful being
\* the count so far; an exception of send_message leaves the loop and send_batch
RECURSIVE send_batch_loop(_, _, _, _)
send_batch_loop(batch, i, successful, acc) ==
    IF i > Len(batch)
    THEN [raised |-> FALSE, returned |-> successful, attempted |-> i - 1,
          batches |-> 1, counters |-> acc]
    ELSE LET r == send_message(batch[i], TRIES, DELAY, acc)
         IN  IF r.result = "raise"
             THEN [raised |-> TRUE, returned |-> None, attempted |-> i,
                   batches |-> 0, counters |-> r.counters]
             ELSE send_batch_loop(batch, i + 1,
                                  successful + (IF r.result = "True" THEN 1 ELSE 0),
                                  r.counters)

\* send_batch(batch): `if not batch: return 0`, the loop, record_batch_sent
send_batch(batch) ==
    IF batch = <<>>
    THEN [raised |-> FALSE, returned |-> 0, attempted |-> 0, batches |-> 0,
          counters |-> NoSends]
    ELSE send_batch_loop(batch, 1, 0, NoSends)

\* ------------------------------------------------------- SpecProducer
\* DataProducer.send_batch called on batches of up to MaxBatch messages, and
\* send_message on one message, each message with what its successive sends meet.
ProducerCalls ==
    {[fn |-> "send_batch", done |-> FALSE, batch |-> b] :
        b \in UNION {[1..n -> [1..TRIES -> SendOutcomes]] : n \in 0..MaxBatch}}
      \cup {[fn |-> "send_message", done |-> FALSE, os |-> os] :
                os \in [1..TRIES -> SendOutcomes]}

InitProducer ==
    /\ config \in {c \in PipelineConfigs :
                      c.max_retries = 1 /\ c.offset_commit_frequency = 1}
    /\ pc = "call"
    /\ running = FALSE
    /\ consumer = None
    /\ producer = "open"
    /\ collection = None
    /\ messages = <<>>
    /\ messages_since_commit = 0
    /\ position = 0
    /\ committed = 0
    /\ store = {}
    /\ dlq = <<>>
    /\ clock = 0
    /\ metrics = [processed |-> 0, errors |-> 0, lag |-> 0]
    /\ persisted = {}
    /\ lastCommit = NoCommit
    /\ owed = 0
    /\ lastProc = NoProc
    /\ ins = NoInsert
    /\ calls = 0
    /\ client = None
    /\ conn = NoConn
    /\ signalled = FALSE
    /\ uncommitted = 0
    /\ log = <<>>
    /\ cleanups = 0
    /\ operational = "down"
    /\ last_health_check_time = 0
    /\ instances = <<>>
    /\ indexes = <<>>
    /\ ret \in ProducerCalls

\* self.send_batch(batch)
CallSendBatch ==
    /\ ret.fn = "send_batch" /\ ~ret.done
    /\ ret' = [fn |-> "send_batch", done |-> TRUE, batch |-> ret.batch,
               result |-> send_batch(ret.batch)]
    /\ UNCHANGED <<config, pc, running, consumer, producer, collection, messages,
                   messages_since_commit, position, committed, store, dlq, clock,
                   metrics, persisted, lastCommit, owed, lastProc, ins, calls, client,
                   conn, signalled, indexes, instances, last_health_check_time,
                   operational, cleanups, log, uncommitted>>

\* self.send_message(key, value, headers)
CallSendMessage ==
    /\ ret.fn = "send_message" /\ ~ret.done
    /\ ret' = [fn |-> "send_message", done |-> TRUE, os |-> ret.os,
               result |-> send_message(ret.os, TRIES, DELAY, NoSends)]
    /\ UNCHANGED <<config, pc, running, consumer, producer, collection, messages,
                   messages_since_commit, position, committed, store, dlq, clock,
                   metrics, persisted, lastCommit, owed, lastProc, ins, calls, client,
                   conn, signalled, indexes, instances, last_health_check_time,
                   operational, cleanups, log, uncommitted>>

NextProducer == CallSendBatch \/ CallSendMessage

SpecProducer == InitProducer /\ [][NextProducer]_vars

\* ------------------------------------------------------- SpecProducerRun
\* DataProducer.run from the call to its return, one step per statement of the loop,
\* with a termination signal delivered at any moment. Times are in seconds.
HEALTH_CHECK_INTERVAL == 60
REINIT_SLEEP == 5

RECURSIVE Sum(_)
Sum(seq) == IF seq = <<>> THEN 0 ELSE Head(seq) + Sum(Tail(seq))

\* a health_check that stamps the time of a probe only when the probe passed
StampOnSuccess(now, last, os) ==
    IF now - last < HEALTH_CHECK_INTERVAL
    THEN [result |-> TRUE, probed |-> FALSE, last |-> last, status |-> "same",
          elapsed |-> 0]
    ELSE LET r == send_message(os, TRIES, DELAY, NoSends)
         IN  [result |-> r.result = "True", probed |-> TRUE,
              last |-> IF r.result = "True" THEN now ELSE last,
              status |-> IF r.result = "True" THEN "up" ELSE "down",
              elapsed |-> Sum(r.counters.sleeps)]

\* health_check() called at time now with last_health_check_time = last, os listing
\* what the sends of the probe meet: the value returned, whether a probe was sent,
\* the new last_health_check_time, the status recorded ("same" for none) and the
\* time spent in the decorator's sleeps. A KafkaError that leaves send_message is
\* caught by `except Exception`.
health_check(now, last, os) ==
    IF now - last < HEALTH_CHECK_INTERVAL
    THEN [result |-> TRUE, probed |-> FALSE, last |-> last, status |-> "same",
          elapsed |-> 0]
    ELSE LET r == send_message(os, TRIES, DELAY, NoSends)
         IN  [result |-> r.result = "True", probed |-> TRUE, last |-> now,
              status |-> IF r.result = "True" THEN "up" ELSE "down",
              elapsed |-> Sum(r.counters.sleeps)]

\* interval_ms / 1000 and batch_size of the producer's configuration
ProducerConfigs == [interval_sec : {1, HEALTH_CHECK_INTERVAL}, batch_size : {1}]

\* the state after DataProducer(): the Kafka producer connected, running False,
\* last_health_check_time 0, the clock at any time.time() of today
InitProducerRun ==
    /\ config \in ProducerConfigs
    /\ pc = "run"
    /\ running = FALSE
    /\ consumer = None
    /\ producer = "open"
    /\ collection = None
    /\ messages = <<>>
    /\ messages_since_commit = 0
    /\ position = 0
    /\ committed = 0
    /\ store = {}
    /\ dlq = <<>>
    /\ clock = 2 * HEALTH_CHECK_INTERVAL
    /\ metrics = [processed |-> 0, errors |-> 0, lag |-> 0]
    /\ persisted = {}
    /\ lastCommit = NoCommit
    /\ owed = 0
    /\ lastProc = NoProc
    /\ ins = NoInsert
    /\ calls = 0
    /\ client = None
    /\ conn = NoConn
    /\ signalled = FALSE
    /\ uncommitted = 0
    /\ ret = [fn |-> "run", start_time |-> 0]
    /\ indexes = <<>>
    /\ instances = <<>>
    /\ last_health_check_time = 0
    /\ operational = "up"
    /\ cleanups = 0
    /\ log = <<>>

\* _handle_exit(signum, frame): self.running = False; calls counts the iterations
\* of the loop begun so far
HandleExit ==
    /\ ~signalled
    /\ pc # "returned"
    /\ signalled' = TRUE
    /\ running' = FALSE
    /\ log' = Append(log, [ev |-> "signal", iter |-> calls, in_run |-> pc # "run"])
    /\ UNCHANGED <<config, pc, consumer, producer, collection, messages,
                   messages_since_commit, position, committed, store, dlq, clock,
                   metrics, persisted, lastCommit, owed, lastProc, ins, calls, client,
                   conn, ret, indexes, instances, last_health_check_time, operational,
                   cleanups, uncommitted>>

\* run(): self.running = True, then the try block
ProducerRunEnter ==
    /\ pc = "run"
    /\ running' = TRUE
    /\ pc' = "while"
    /\ UNCHANGED <<config, consumer, producer, collection, messages,
                   messages_since_commit, position, committed, store, dlq, clock,
                   metrics, persisted, lastCommit, owed, lastProc, ins, calls, client,
                   conn, signalled, ret, indexes, instances, last_health_check_time,
                   operational, cleanups, log, uncommitted>>

\* while self.running: start_time = time.time(); a false flag leaves the try block
\* for the finally clause
ProducerLoopTest ==
    /\ pc = "while"
    /\ running => calls < MaxIterations
    /\ IF running
       THEN /\ pc' = "health_check"
            /\ calls' = calls + 1
            /\ ret' = [ret EXCEPT !.start_time = clock]
       ELSE /\ pc' = "finally"
            /\ UNCHANGED <<calls, ret>>
    /\ UNCHANGED <<config, running, consumer, producer, collection, messages,
                   messages_since_commit, position, committed, store, dlq, clock,
                   metrics, persisted, lastCommit, owed, lastProc, ins, client, conn,
                   signalled, indexes, instances, last_health_check_time, operational,
                   cleanups, log, uncommitted>>

\* healthy = self.health_check(); if not healthy: ...
ProducerHealthCheck ==
    /\ pc = "health_check"
    /\ \E os \in [1..TRIES -> SendOutcomes] :
         LET r == health_check(clock, last_health_check_time, os)
         IN  /\ last_health_check_time' = r.last
             /\ operational' = IF r.status = "same" THEN operational ELSE r.status
             /\ clock' = clock + r.elapsed
             /\ log' = IF r.probed
                       THEN Append(log, [ev |-> "probe", iter |-> calls, at |-> clock,
                                         result |-> r.result])
                       ELSE log
             /\ pc' = IF r.result THEN "generate_data" ELSE "reinit"
    /\ UNCHANGED <<config, running, consumer, producer, collection, messages,
                   messages_since_commit, position, committed, store, dlq, metrics,
                   persisted, lastCommit, owed, lastProc, ins, calls, client, conn,
                   signalled, ret, indexes, instances, cleanups, uncommitted>>

\* self._init_kafka_producer() inside its own try: a failure is logged, run sleeps
\* 5 s and continues with the loop test
ProducerReinit ==
    /\ pc = "reinit"
    /\ \E ok \in BOOLEAN :
         IF ok
         THEN /\ operational' = "up"
              /\ pc' = "generate_data"
              /\ UNCHANGED clock
         ELSE /\ operational' = "down"
              /\ clock' = clock + REINIT_SLEEP
              /\ pc' = "while"
    /\ UNCHANGED <<config, running, consumer, producer, collection, messages,
                   messages_since_commit, position, committed, store, dlq, metrics,
                   persisted, lastCommit, owed, lastProc, ins, calls, client, conn,
                   signalled, ret, indexes, instances, last_health_check_time,
                   cleanups, log, uncommitted>>

\* batch = self.generate_data(batch_size): the generator returns a batch or raises
ProducerGenerate ==
    /\ pc = "generate_data"
    /\ \E ok \in BOOLEAN :
         IF ok
         THEN /\ log' = Append(log, [ev |-> "generate", iter |-> calls])
              /\ pc' = "send_batch"
         ELSE /\ pc' = "except"
              /\ UNCHANGED log
    /\ UNCHANGED <<config, running, consumer, producer, collection, messages,
                   messages_since_commit, position, committed, store, dlq, clock,
                   metrics, persisted, lastCommit, owed, lastProc, ins, calls, client,
                   conn, signalled, ret, indexes, instances, last_health_check_time,
                   operational, cleanups, uncommitted>>

\* sent = self.send_batch(batch): a KafkaError that outlasts the retries of a
\* message leaves send_batch and the try block
ProducerSendBatch ==
    /\ pc = "send_batch"
    /\ \E b \in [1..config.batch_size -> [1..TRIES -> SendOutcomes]] :
         LET r == send_batch(b)
         IN  /\ clock' = clock + Sum(r.counters.sleeps)
             /\ log' = Append(log, [ev |-> "send", iter |-> calls, raised |-> r.raised])
             /\ pc' = IF r.raised THEN "except" ELSE "sleep"
    /\ UNCHANGED <<config, running, consumer, producer, collection, messages,
                   messages_since_commit, position, committed, store, dlq, metrics,
                   persisted, lastCommit, owed, lastProc, ins, calls, client, conn,
                   signalled, ret, indexes, instances, last_health_check_time,
                   operational, cleanups, uncommitted>>

\* sleep_time = max(0, interval_sec - elapsed); time.sleep(sleep_time)
ProducerSleep ==
    /\ pc = "sleep"
    /\ clock' = IF config.interval_sec - (clock - ret.start_time) > 0
                THEN ret.start_time + config.interval_sec ELSE clock
    /\ pc' = "while"
    /\ UNCHANGED <<config, running, consumer, producer, collection, messages,
                   messages_since_commit, position, committed, store, dlq, metrics,
                   persisted, lastCommit, owed, lastProc, ins, calls, client, conn,
                   signalled, ret, indexes, instances, last_health_check_time,
                   operational, cleanups, log, uncommitted>>

\* except Exception: self.metrics.record_operational_status(False)
ProducerExcept ==
    /\ pc = "except"
    /\ operational' = "down"
    /\ pc' = "finally"
    /\ UNCHANGED <<config, running, consumer, producer, collection, messages,
                   messages_since_commit, position, committed, store, dlq, clock,
                   metrics, persisted, lastCommit, owed, lastProc, ins, calls, client,
                   conn, signalled, ret, indexes, instances, last_health_check_time,
                   cleanups, log, uncommitted>>

\* a finally clause that cleans up only after an exception
CleanupAfterException ==
    /\ pc = "finally"
    /\ producer' = IF operational = "down" THEN "closed" ELSE producer
    /\ cleanups' = IF operational = "down" THEN cleanups + 1 ELSE cleanups
    /\ pc' = "returned"
    /\ UNCHANGED <<config, running, consumer, collection, messages,
                   messages_since_commit, position, committed, store, dlq, clock,
                   metrics, persisted, lastCommit, owed, lastProc, ins, calls, client,
                   conn, signalled, ret, indexes, instances, last_health_check_time,
                   operational, log, uncommitted>>

\* finally: self._cleanup(): self.producer.close(timeout=5) and
\* record_operational_status(False)
ProducerCleanup ==
    /\ pc = "finally"
    /\ producer' = "closed"
    /\ operational' = "down"
    /\ cleanups' = cleanups + 1
    /\ pc' = "returned"
    /\ UNCHANGED <<config, running, consumer, collection, messages,
                   messages_since_commit, position, committed, store, dlq, clock,
                   metrics, persisted, lastCommit, owed, lastProc, ins, calls, client,
                   conn, signalled, ret, indexes, instances, last_health_check_time,
                   log, uncommitted>>

NextProducerRun ==
    \/ HandleExit
    \/ ProducerRunEnter
    \/ ProducerLoopTest
    \/ ProducerHealthCheck
    \/ ProducerReinit
    \/ ProducerGenerate
    \/ ProducerSendBatch
    \/ ProducerSleep
    \/ ProducerExcept
    \/ ProducerCleanup

SpecProducerRun == InitProducerRun /\ [][NextProducerRun]_vars

\* ================================================================= claims
\* a record is handled once a successful insert_batch took its document or an
\* envelope for it is on the dead-letter topic
DeadLettered(o) == \E i \in 1..Len(dlq) : dlq[i].offset = o
Handled(o) == o \in persisted \/ DeadLettered(o)
ProcessEnded == lastProc.called
Published == Len(dlq) - lastProc.dlqBefore

\* C1 (stated as claimed): whenever an offset commit is issued, every record polled so
\* far, which the commit covers, has already been persisted by a successful
\* insert_batch or published to the dead-letter topic.
C1_NoPrematureCommit ==
    lastCommit.issued => \A o \in 1..lastCommit.position : Handled(o)

\* C2 (stated as claimed): when insert_batch reports failure for a batch of K polled
\* records, exactly K envelopes are published to the dead-letter topic, one per
\* record of the batch, insert_batch was called once, and the call returns False.
C2_DeadLetterCompleteness ==
    (ProcessEnded /\ ins.called /\ ins.result \in {"False", None}) =>
        /\ lastProc.result = "False"
        /\ Published = Len(messages)
        /\ \A i \in 1..Len(messages) :
               dlq[lastProc.dlqBefore + i].offset = messages[i].offset

\* C3: after any sequence of insert_batch calls, every stored document that has an
\* id has it as its primary key and no two stored documents share an id; a call
\* that returned True left a document in the store for each id of its batch; and a
\* call that reached the store without any non-duplicate failure and whose documents
\* were all stored before returned True, leaving the store as it was.
AlreadyStored(c) ==
    /\ c.docs # <<>>
    /\ \A i \in 1..Len(c.docs) :
           c.docs[i].id # NoId /\ \E d \in c.before : d._id = c.docs[i].id
StoreAnswered(c) ==
    /\ c.trace # <<>>
    /\ \A k \in 1..Len(c.trace) : c.trace[k] \in {"ok", "duplicate"}
C3_IdempotentPersistence ==
    /\ \A d \in store : d.id # NoId => d._id = d.id
    /\ \A d \in store : \A e \in store : (d.id # NoId /\ d.id = e.id) => d = e
    /\ (ins.called /\ ins.result = "True") =>
           \A i \in 1..Len(ins.docs) :
               ins.docs[i].id # NoId =>
                   Cardinality({d \in store : d.id = ins.docs[i].id}) = 1
    /\ (ins.called /\ AlreadyStored(ins) /\ StoreAnswered(ins)) =>
           ins.result = "True" /\ store = ins.before

\* C3 witness: a batch whose documents were all stored by an earlier call was
\* written again and the call returned True
C3_Witness ==
    /\ ins.called /\ AlreadyStored(ins) /\ StoreAnswered(ins)
    /\ Len(ins.docs) = 2 /\ ins.docs[1].id # ins.docs[2].id
    /\ ins.result = "True"

\* C4 (stated as claimed): with storage never connected, the persistence attempt of
\* a batch ends as a failure result, not as an exception, and every record of the
\* batch gets an envelope on the dead-letter topic.
C4_StorageDownDeadLetters ==
    (ProcessEnded /\ ins.called /\ collection = None) =>
        /\ lastProc.result = "False"
        /\ \A i \in 1..Len(messages) : DeadLettered(messages[i].offset)

\* C5 (stated as claimed): when the persistence of a batch has failed and its records
\* were dead-lettered, messages_since_commit has advanced by the batch's raw count.
C5_CursorAdvancesOnDeadLetter ==
    (ProcessEnded /\ lastProc.result = "False") =>
        messages_since_commit = lastProc.cursorBefore + Len(messages)

\* C6 (stated as claimed): whenever process_and_store_batch returns True for a batch
\* of K records, messages_since_commit was increased by exactly K before any commit
\* reset, whatever number of records passed transformation (none included), and the
\* processed-messages metric by the number of transformed documents.
C6_CursorCountsRawRecords ==
    (ProcessEnded /\ lastProc.result = "True") =>
        /\ lastProc.cursorAdded = lastProc.cursorBefore + Len(messages)
        /\ metrics.processed = lastProc.processedBefore + lastProc.transformed

\* C7 (stated as claimed): whenever a process phase leaves messages_since_commit at or
\* above offset_commit_frequency, a commit was issued in that iteration; an
\* accepted commit resets the counter to 0; no commit is issued while running with
\* the counter below the threshold.
C7_ThresholdCommit ==
    /\ (ProcessEnded /\ messages_since_commit >= config.offset_commit_frequency) =>
           lastProc.commit # "none"
    /\ (ProcessEnded /\ lastProc.commit = "ok") => messages_since_commit = 0
    /\ (lastCommit.issued /\ lastCommit.during = "running") =>
           lastCommit.cursor >= config.offset_commit_frequency

\* C8: a rejected commit raises nothing and keeps messages_since_commit (the loop
\* goes on to the lag phase); a rejected commit of the running loop is followed by
\* another commit call, at the latest at shutdown; and the next commit call after
\* a rejected one is made at a position, and with a counter, no smaller than those
\* of the rejected one, so it covers the span that is still uncommitted.
C8_State ==
    /\ (ProcessEnded /\ lastProc.commit = "failed") =>
           /\ pc = "lag"
           /\ lastProc.result = "True"
           /\ messages_since_commit = lastProc.cursorAdded
    /\ (lastCommit.issued /\ ~lastCommit.ok) =>
           /\ messages_since_commit = lastCommit.cursor
           /\ owed > 0 /\ owed <= lastCommit.position
    /\ (pc = "stopped" /\ lastCommit.issued /\ ~lastCommit.ok) =>
           lastCommit.during = "draining"
C8_Step ==
    (lastCommit.issued /\ ~lastCommit.ok /\ lastCommit' # lastCommit) =>
        /\ lastCommit'.position >= owed
        /\ lastCommit'.position >= lastCommit.position
        /\ lastCommit'.cursor >= lastCommit.cursor
        /\ lastCommit'.ok => committed' >= owed
C8_CommitRejectionTolerated == []C8_State /\ [][C8_Step]_vars

\* C8 witness: a threshold commit was rejected, the loop went on, and the commit
\* call of a later successful batch was accepted: its counter is too large to have
\* been built up since an accepted commit
C8_Witness ==
    /\ lastCommit.issued /\ lastCommit.ok /\ lastCommit.during = "running"
    /\ lastCommit.cursor >= config.offset_commit_frequency + config.batch_size
    /\ committed = position /\ messages_since_commit = 0

\* C9: with max_retries = N >= 1 and base delay d, the k-th sleep of an insert_batch
\* call lasts d * 2^(k-1) ms; a call whose every attempt failed with a
\* non-duplicate error made N attempts, slept N - 1 times (not after the last
\* attempt) and returned False; a call that returned True at attempt k slept
\* k - 1 times.
Failure(kind) == kind \in {"error", "write_error"}
C10_DuplicateOnlyIsSuccess ==
    \A k \in 1..Len(ins.trace) :
        ins.trace[k] = "duplicate" =>
            /\ k = Len(ins.trace)
            /\ ins.result = "True"
            /\ Len(ins.sleeps) = k - 1

\* C10 witness: after a failed attempt and its sleep, the second attempt meets only
\* duplicate keys and the call returns True with that single sleep
C10_Witness ==
    /\ ins.called /\ Len(ins.trace) = 2
    /\ ins.trace[1] = "error" /\ ins.trace[2] = "duplicate"
    /\ ins.result = "True" /\ Len(ins.sleeps) = 1

\* C11 (stated as claimed): an insert_many call that ends in a storage error not made
\* up entirely of duplicate-key violations (a plain error, a bulk-write error with a
\* non-duplicate write error, a bulk-write error with no write error at all) consumes
\* one retry attempt and never ends the insert_batch call with True: the call goes
\* on, or returns False once max_retries such errors have occurred.
NotDuplicateOnly(kind) == kind \in {"error", "write_error", "no_write_error"}
C11_OtherErrorsConsumeRetry ==
    \A k \in 1..Len(ins.trace) :
        NotDuplicateOnly(ins.trace[k]) =>
            /\ ins.retry_count >= k
            /\ k = Len(ins.trace) =>
                   /\ ins.result \in {"pending", "False"}
                   /\ ins.result = "False" <=> k = config.max_retries

\* C12: after the loop has exited on a stop signal, run issues a final commit if
\* and only if messages_since_commit > 0, then closes the consumer, then flushes
\* the producer, then closes the storage client, each once and in that order, and
\* ends in Stopped.
AfterLoop == pc \in {"final_commit", "close", "flush", "close_storage", "stopped"}
FinalCommitIssued == lastCommit.issued /\ lastCommit.during = "draining"
C12_State ==
    /\ AfterLoop => ~running
    /\ pc \in {"final_commit", "close"} =>
           consumer = "open" /\ producer = "open" /\ client # "closed"
    /\ pc = "final_commit" => ~FinalCommitIssued
    /\ pc = "flush" => consumer = "closed" /\ producer = "open" /\ client # "closed"
    /\ pc = "close_storage" =>
           consumer = "closed" /\ producer = "flushed" /\ client # "closed"
    /\ pc = "stopped" => consumer = "closed" /\ producer = "flushed" /\ client # "open"
    /\ (AfterLoop /\ pc # "final_commit") =>
           IF FinalCommitIssued
           THEN /\ lastCommit.cursor > 0
                /\ lastCommit.position = position
                /\ lastCommit.ok => (messages_since_commit = 0 /\ committed = position)
           ELSE messages_since_commit = 0
C12_Step ==
    /\ (consumer' = "closed" /\ consumer # "closed") => (pc = "close" /\ pc' = "flush")
    /\ (producer' = "flushed" /\ producer # "flushed") =>
           (pc = "flush" /\ pc' = "close_storage")
    /\ (client' = "closed" /\ client # "closed") =>
           (pc = "close_storage" /\ pc' = "stopped")
    /\ (pc = "final_commit" /\ pc' # pc) =>
           /\ pc' = "close"
           /\ messages_since_commit > 0 =>
                  (lastCommit'.issued /\ lastCommit'.during = "draining"
                   /\ lastCommit'.cursor = messages_since_commit)
           /\ messages_since_commit = 0 => lastCommit' = lastCommit
    /\ (pc # "final_commit" /\ lastCommit' # lastCommit) =>
           lastCommit'.during = "running"
    /\ pc = "stopped" => pc' = "stopped"
C12_OrderedShutdown == []C12_State /\ [][C12_Step]_vars

\* C12 witness: run has stopped after an accepted final commit, with the consumer
\* closed, the producer flushed and the storage client closed
C12_Witness ==
    /\ pc = "stopped" /\ FinalCommitIssued /\ lastCommit.ok
    /\ consumer = "closed" /\ producer = "flushed" /\ client = "closed"

\* C13 (stated as claimed): once a termination signal has been delivered, at any
\* moment after the handlers were installed, run eventually ends (Stopped, or
\* returned because the broker could not be reached), every blocking call returning.
C13_SignalStops == signalled ~> (pc \in {"stopped", "returned"})

\* C14: an exception raised inside an iteration of the loop is caught by the loop:
\* the error counter goes up by exactly one, the pause follows, and then the loop
\* tests its condition again; the loop is left only with the running flag false,
\* and run is never left by an exception.
C14_State ==
    /\ pc # "crashed"
    /\ AfterLoop => ~running
C14_Step ==
    /\ (pc = "insert" /\ ins.result = "raise" /\ pc' # pc) => pc' = "except"
    /\ (pc = "except" /\ pc' # pc) =>
           (pc' = "pause" /\ metrics'.errors = metrics.errors + 1)
    /\ (pc \in {"except", "pause"} /\ pc' = pc) => metrics' = metrics
    /\ (pc = "pause" /\ pc' # pc) => (pc' = "loop" /\ metrics' = metrics)
    /\ (pc = "loop" /\ pc' # pc) =>
           \/ pc' = "consume" /\ running
           \/ pc' = "final_commit" /\ ~running
    /\ (pc' = "final_commit" /\ pc' # pc) => (pc = "loop" /\ ~running)
    /\ (pc' = "except" /\ pc' # pc) => pc \in {"consume", "insert"}
KafkaConnectFailed == conn.fn = "connect_kafka" /\ conn.result \in {"False", None}
C15_BrokerFailureIsFatal ==
    /\ (conn.fn = "connect_kafka" /\ conn.result = "False") =>
           conn.retry_count = config.max_retries
    /\ KafkaConnectFailed => pc = "returned"
    /\ pc = "returned" =>
           /\ KafkaConnectFailed
           /\ ~running /\ client = None /\ collection = None
           /\ position = 0 /\ messages = <<>> /\ store = {} /\ dlq = <<>>
           /\ ~lastCommit.issued /\ committed = 0 /\ ~ins.called

\* C15 witness: both attempts of a connect_kafka with max_retries = 2 failed, one
\* sleep between them, and run has returned
C15_Witness ==
    /\ pc = "returned" /\ config.max_retries = 2
    /\ conn.result = "False" /\ conn.retry_count = 2 /\ Len(conn.sleeps) = 1

\* C16: process_batch returns exactly the transformed documents of the input records
\* whose value is a JSON object, in the order of the input; a record that is None,
\* has no value, is badly encoded or parses to an array or a scalar contributes
\* nothing and does not keep later records from being transformed.
IsObject(message) == message.value.kind = "object"
C16_TransformKeepsObjects ==
    (ret.fn = "process_batch" /\ ret.done) =>
        LET msgs == ret.messages
            out == ret.result
            good == {i \in 1..Len(msgs) : IsObject(msgs[i])}
            \* the index in the input of the j-th document of the output
            from(j) == CHOOSE i \in good : Cardinality({h \in good : h < i}) = j - 1
        IN  /\ Len(out) = Cardinality(good)
            /\ \A j \in 1..Len(out) :
                   /\ out[j].src = msgs[from(j)].offset
                   /\ out[j].id = msgs[from(j)].value.id

\* C16 witness: of three records, the second one badly encoded, the first and the
\* third came out, in that order
C16_Witness ==
    /\ ret.fn = "process_batch" /\ ret.done /\ Len(ret.messages) = 3
    /\ IsObject(ret.messages[1]) /\ ret.messages[2].value.kind = "badutf8"
    /\ IsObject(ret.messages[3])
    /\ Len(ret.result) = 2 /\ ret.result[1].src = 1 /\ ret.result[2].src = 3

\* C17 (stated as claimed): a process phase over a batch with F records that fail
\* transformation raises the processing-error counter by F.
C17_TransformFailuresCounted ==
    ProcessEnded =>
        metrics.errors = lastProc.errorsBefore + (Len(messages) - lastProc.transformed)

\* C18 (stated as claimed): calculate_lag on a consumer sets the lag gauge to the sum
\* over the assigned partitions of high watermark - position (0 with none); when
\* the broker client or the metrics sink fails, the gauge keeps its value.
RECURSIVE SumOfLags(_)
SumOfLags(a) ==
    IF a = <<>> THEN 0 ELSE (Head(a).high - Head(a).position.offset) + SumOfLags(Tail(a))
C18_LagIsSumOverPartitions ==
    (ret.fn = "calculate_lag" /\ ret.done /\ consumer # None) =>
        IF ret.metricOk /\ \A i \in 1..Len(ret.assignments) : ~ret.assignments[i].fails
        THEN metrics.lag = SumOfLags(ret.assignments)
        ELSE metrics.lag = ret.gaugeBefore

\* C19: send_to_dead_letter always returns a boolean: False, with nothing published,
\* without a producer or when building or publishing the envelope throws; True
\* with exactly one envelope, for its record, otherwise. The dead-letter loop
\* makes one attempt per record: a failed attempt is not repeated and the
\* envelopes published are those of the attempts that went through, in order.
Publishable(message, produceOk) ==
    producer # None /\ produceOk /\ message.value.kind # "badutf8"
C19_DeadLetterBestEffort ==
    /\ (ret.fn = "send_to_dead_letter" /\ ret.done) =>
           /\ ret.result \in BOOLEAN
           /\ ret.result <=> Publishable(ret.message, ret.produceOk)
           /\ Len(dlq) = ret.dlqBefore + (IF ret.result THEN 1 ELSE 0)
           /\ ret.result => dlq[Len(dlq)].offset = ret.message.offset
    /\ (ret.fn = "dead_letter_all" /\ ret.done) =>
           LET msgs == ret.messages
               sent == {i \in 1..Len(msgs) : Publishable(msgs[i], ret.produceOks[i])}
           IN  /\ Len(dlq) = ret.dlqBefore + Cardinality(sent)
               /\ \A i \in 1..Len(msgs) :
                      Cardinality({k \in 1..Len(dlq) : dlq[k].offset = msgs[i].offset})
                          = IF i \in sent THEN 1 ELSE 0
               /\ \A k \in 1..Len(dlq), l \in 1..Len(dlq) :
                      k < l => dlq[k].offset < dlq[l].offset

\* C19 witness: in a batch of two, the publish of the first record failed and was
\* not repeated; the second record's envelope is the only one on the topic
C19_Witness ==
    /\ ret.fn = "dead_letter_all" /\ ret.done /\ Len(ret.messages) = 2
    /\ producer = "open" /\ ret.produceOks = <<FALSE, TRUE>>
    /\ Len(dlq) = 1 /\ dlq[1].offset = 2

\* C20 (stated as claimed): with a metrics sink whose calls may raise, run is not
\* ended by an exception, and a process phase whose write succeeded still advances
\* messages_since_commit by the batch's record count.
C20_MetricsFailuresHarmless ==
    /\ pc # "crashed"
    /\ (ProcessEnded /\ ins.called /\ ins.result = "True") =>
           /\ lastProc.result = "True"
           /\ lastProc.cursorAdded = lastProc.cursorBefore + Len(messages)

\* C21: storage.connect and connect_kafka make at most max_retries attempts; the k-th
\* sleep of a call lasts base * 2^(k-1) ms; a call returns True at its first
\* successful attempt k, after exactly k - 1 sleeps; after max_retries >= 1
\* consecutive connection errors it returns False, having slept max_retries - 1
\* times (with max_retries = 0 it makes no attempt and returns None); a call that
\* has returned makes no further attempt.
ConnectCalled == conn.fn \in {"connect_kafka", "storage.connect"}
ConnectAttempts == conn.retry_count + (IF conn.result = "True" THEN 1 ELSE 0)
C21_State ==
    ConnectCalled =>
        LET N == config.max_retries
            d == config.retry_backoff_ms
        IN  /\ ConnectAttempts <= N
            /\ \A j \in 1..Len(conn.sleeps) : conn.sleeps[j] = d * (2 ^ (j - 1))
            /\ conn.result \in {"pending", "True", "False", None}
            /\ conn.result = "pending" =>
                   (conn.retry_count < N /\ Len(conn.sleeps) = conn.retry_count)
            /\ conn.result = "True" => Len(conn.sleeps) = ConnectAttempts - 1
            /\ conn.result = "False" =>
                   (N >= 1 /\ conn.retry_count = N /\ Len(conn.sleeps) = N - 1)
            /\ conn.result = None => (N = 0 /\ ConnectAttempts = 0)
            /\ (N = 3 /\ d = 1000 /\ conn.result = "False") =>
                   conn.sleeps = <<1000, 2000>>
C21_Step ==
    (ConnectCalled /\ conn.result # "pending" /\ conn' # conn) =>
        /\ conn'.fn # conn.fn
        /\ conn.fn = "storage.connect" => conn'.fn = "none"
        /\ conn.fn = "connect_kafka" => (conn.result = "True" /\ pc = "connect_storage")
C21_BoundedConnectRetries == []C21_State /\ [][C21_Step]_vars

\* C21 witness: storage.connect, with three attempts allowed and a base delay of
\* 250 ms, failed twice, slept 250 and 500 ms, and returned True at the third attempt
C21_Witness ==
    /\ conn.fn = "storage.connect" /\ config.max_retries = 3
    /\ conn.result = "True" /\ conn.retry_count = 2 /\ conn.sleeps = <<250, 500>>
    /\ collection = "open"

\* C22: an empty input is a no-op success: insert_batch([]) returns True without
\* any insert_many call (no attempt, no sleep, the store as it was), and
\* process_and_store_batch([]) returns True without calling the transformer, the
\* storage gateway, the dead-letter router or commit, and leaves
\* messages_since_commit as it was.
C22_EmptyInputIsNoOp ==
    /\ (ret.fn = "insert_batch" /\ ret.done /\ ret.docs = <<>>) =>
           /\ ret.result = "True"
           /\ ins.trace = <<>> /\ ins.sleeps = <<>> /\ ins.retry_count = 0
           /\ store = ins.before
    /\ (ret.fn = "process_and_store_batch" /\ ret.done /\ ret.messages = <<>>) =>
           /\ ret.result = "True"
           /\ pc = "call" /\ lastProc = NoProc /\ clock = 1
           /\ ~ins.called /\ store = {}
           /\ Len(dlq) = ret.dlqBefore
           /\ ~lastCommit.issued /\ committed = 0
           /\ messages_since_commit = ret.cursorBefore
           /\ metrics.processed = 0

\* C22 witness: process_and_store_batch([]) has returned True on a consumer with one
\* record counted since the last commit and a commit threshold of one
C22_Witness ==
    /\ ret.fn = "process_and_store_batch" /\ ret.done /\ ret.messages = <<>>
    /\ ret.result = "True" /\ consumer = "open" /\ collection = "open"
    /\ messages_since_commit = 1 /\ config.offset_commit_frequency = 1

\* C23 (stated as claimed): when a document whose id was already in the store is
\* written again by an insert_batch call that returns True, the stored document of
\* that id is the one just written: it carries the later received_at.
C23_RedeliveryOverwrites ==
    (ins.called /\ ins.result = "True") =>
        \A i \in 1..Len(ins.docs) :
            (ins.docs[i].id # NoId /\ \E b \in ins.before : b._id = ins.docs[i].id) =>
                \E d \in store :
                    d._id = ins.docs[i].id /\ d.received_at = ins.docs[i].received_at

\* C24 (stated as claimed): send_batch attempts every message of the batch and
\* returns the number of messages whose send went through, whatever the messages'
\* sends meet, a KafkaError at every retry included: no exception leaves
\* send_message or send_batch.
SendSucceeds(os) ==
    \E k \in 1..TRIES : os[k] = "ok" /\ \A j \in 1..(k - 1) : os[j] = "KafkaError"
C24_SendBatchCountsSuccesses ==
    (ret.fn = "send_batch" /\ ret.done) =>
        /\ ~ret.result.raised
        /\ ret.result.attempted = Len(ret.batch)
        /\ ret.result.returned =
               Cardinality({i \in 1..Len(ret.batch) : SendSucceeds(ret.batch[i])})

\* C25: consume_batch returns only error-free records, in poll order, and never
\* more than batch_size of them; it stops at the first poll that returns no
\* record; an end-of-partition marker is skipped without touching the error
\* counter, every other errored event is skipped and raises the error counter by
\* exactly one; skipped events do not count toward the batch-size ceiling.
C25_ConsumeBatch ==
    (ret.fn = "consume_batch" /\ ret.done /\ running) =>
        LET polls == ret.polls
            n == Len(polls)
            \* the polls up to the first one that returned nothing
            some == {i \in 1..n : \A j \in 1..i : polls[j] # "none"}
            recs == {i \in some : polls[i] = "record"}
            taken == {i \in recs :
                         Cardinality({h \in recs : h < i}) < config.batch_size}
            full == Cardinality(recs) >= config.batch_size
            \* the polls made before the batch was full
            seen == {i \in some : full => \E t \in taken : i <= t}
            ith(j) == CHOOSE i \in taken : Cardinality({h \in taken : h < i}) = j - 1
        IN  /\ Len(ret.result) = Cardinality(taken)
            /\ Len(ret.result) <= config.batch_size
            /\ \A j \in 1..Len(ret.result) : ret.result[j].offset = ith(j)
            /\ metrics.errors =
                   ret.errorsBefore + Cardinality({i \in seen : polls[i] = "error"})
            /\ position = Cardinality(taken)

\* C25 witness: with a ceiling of two, the polls gave a record, an errored event and
\* a record: both records came back, in order, and one error was counted
C25_Witness ==
    /\ ret.fn = "consume_batch" /\ ret.done /\ running /\ config.batch_size = 2
    /\ ret.polls = <<"record", "error", "record">>
    /\ Len(ret.result) = 2 /\ ret.result[1].offset = 1 /\ ret.result[2].offset = 3
    /\ metrics.errors = ret.errorsBefore + 1

\* C26: once the running flag is false inside the loop, no further poll is issued
\* (no record is delivered, no broker error counted, no poll raises); the records
\* already collected are returned and go through the process phase; after that
\* phase the loop is left: no second process phase, no new consume phase, and the
\* flag stays false.
InLoop == pc \in {"loop", "consume", "process", "insert", "lag", "except", "pause"}
StopObserved == InLoop /\ ~running
C26_Step ==
    StopObserved =>
        /\ ~running'
        /\ position' = position
        /\ pc = "consume" =>
               /\ pc' \in {"consume", "process", "lag"}
               /\ metrics' = metrics
               /\ messages' = messages
               /\ pc' # pc => (pc' = "process" <=> messages # <<>>)
        /\ pc \in {"process", "insert"} => pc' \in {"process", "insert", "lag", "except"}
        /\ pc \in {"lag", "except", "pause", "loop"} =>
               pc' \in {"lag", "except", "pause", "loop", "final_commit", "crashed"}
        /\ pc = "loop" => pc' \in {"loop", "final_commit"}
C26_NoPollAfterStop == [][C26_Step]_vars

\* C26 witness: with the flag false, a batch that is not full, collected while more
\* records were to come, is in its process phase
C26_Witness ==
    /\ ~running /\ pc = "insert" /\ ins.result = "pending"
    /\ Len(messages) = 1 /\ config.batch_size = 2 /\ position < MaxOffset

\* C27: envelopes are published only for the records of a batch whose insert_batch
\* reported failure: a process phase that ended otherwise published nothing, a
\* batch of which no record survived transformation is not written and publishes
\* nothing, and every envelope published is for a record of the failed batch.
C27_State ==
    /\ (ProcessEnded /\ lastProc.result # "False") => Published = 0
    /\ (ProcessEnded /\ lastProc.transformed = 0) =>
           (~ins.called /\ lastProc.result = "True" /\ Published = 0)
    /\ (ProcessEnded /\ Published > 0) => (ins.called /\ ins.result \in {"False", None})
C27_Step ==
    dlq' # dlq =>
        /\ pc = "insert" /\ ins.result \in {"False", None}
        /\ Len(dlq') > Len(dlq) /\ SubSeq(dlq', 1, Len(dlq)) = dlq
        /\ \A k \in (Len(dlq) + 1)..Len(dlq') :
               \E i \in 1..Len(messages) : messages[i].offset = dlq'[k].offset
C27_DeadLetterOnlyOnStorageFailure == []C27_State /\ [][C27_Step]_vars

\* C27 witness: a batch of a record that fails transformation and one that passes was
\* persisted; with a producer at hand, nothing of it was dead-lettered
C27_Witness ==
    /\ ProcessEnded /\ lastProc.result = "True" /\ producer = "open"
    /\ Len(messages) = 2 /\ lastProc.transformed = 1
    /\ messages[1].value.kind = "badjson"
    /\ messages[2].offset \in persisted
    /\ ~DeadLettered(messages[1].offset) /\ ~DeadLettered(messages[2].offset)

\* C28: the lifecycle goes Idle, Connecting, Running, Draining, Stopped: every step
\* of run stays in its phase or enters the next one (a run whose broker connection
\* failed ends at once, without Running or Draining), never an earlier one; and
\* once run has ended nothing is polled, written, committed or dead-lettered.
Idle == pc = "init" /\ conn.fn = "none"
Connecting == pc \in {"init", "connect_storage"} /\ ~Idle
Draining == pc \in {"final_commit", "close", "flush", "close_storage"}
Stopped == pc \in {"stopped", "returned"}
Phase ==
    IF Idle THEN 0 ELSE IF Connecting THEN 1 ELSE IF InLoop THEN 2
    ELSE IF Draining THEN 3 ELSE 4
C28_State ==
    /\ Idle \/ Connecting \/ InLoop \/ Draining \/ Stopped
    /\ (Idle \/ Connecting) =>
           (position = 0 /\ store = {} /\ dlq = <<>> /\ ~lastCommit.issued)
    /\ pc = "stopped" => (consumer = "closed" /\ client # "open")
C28_Step ==
    /\ Phase' >= Phase
    /\ Phase' > Phase => (Phase' = Phase + 1 \/ (Phase <= 1 /\ pc' = "returned"))
    /\ Draining => (position' = position /\ store' = store /\ dlq' = dlq)
    /\ Stopped =>
           /\ pc' = pc
           /\ position' = position /\ store' = store /\ dlq' = dlq
           /\ committed' = committed /\ lastCommit' = lastCommit
C28_Lifecycle == []C28_State /\ [][C28_Step]_vars

\* C28 witness: run has stopped after a life in which every record was polled, a
\* batch stored, a batch dead-lettered and a commit accepted
C28_Witness ==
    /\ pc = "stopped" /\ position = MaxOffset
    /\ store # {} /\ dlq # <<>> /\ lastCommit.issued /\ committed > 0

\* C29: an iteration of the loop is one poll phase, then the process phase if and
\* only if the polled batch is not empty, then the lag phase; the lag phase follows
\* an empty batch, a batch of which nothing was transformed, a persisted batch and
\* a batch whose persistence failed, and is skipped only when the poll or the
\* process phase raised; the next poll phase starts from the loop test only.
C29_State ==
    /\ pc \in {"process", "insert"} => messages # <<>>
    /\ (ProcessEnded /\ lastProc.result \in {"True", "False"}) => pc = "lag"
    /\ (ProcessEnded /\ lastProc.result = "raise") => pc = "except"
C29_Step ==
    /\ (pc' = "consume" /\ pc # "consume") => (pc = "loop" /\ messages = <<>>)
    /\ (pc = "consume" /\ pc' # pc) =>
           \/ pc' = "process" /\ messages # <<>>
           \/ pc' = "lag" /\ messages = <<>>
           \/ pc' = "except"
    /\ (pc = "process" /\ pc' # pc) => pc' \in {"insert", "lag"}
    /\ (pc = "insert" /\ pc' # pc) =>
           IF ins.result = "raise" THEN pc' = "except" ELSE pc' = "lag"
    /\ (pc = "lag" /\ pc' # pc) => pc' = "loop"
    /\ (pc' = "lag" /\ pc # "lag") => pc \in {"consume", "process", "insert"}
    /\ (pc = "except" /\ pc' # pc) => pc' = "pause"
    /\ (pc = "pause" /\ pc' # pc) => pc' = "loop"
    /\ (pc' = "loop" /\ pc # "loop") => pc \in {"connect_storage", "lag", "pause"}
C29_IterationPhases == []C29_State /\ [][C29_Step]_vars

\* C29 witness: the lag phase of an iteration whose batch could not be persisted and
\* was dead-lettered
C29_Witness ==
    /\ pc = "lag" /\ ProcessEnded /\ lastProc.result = "False"
    /\ Published = Len(messages) /\ Len(messages) = 2

\* the envelopes a step publishes go to the dead-letter topic, each with the key,
\* topic, partition and offset of a record of the batch, and with the given reason
EnvelopesCarry(reason) ==
    \A k \in (Len(dlq) + 1)..Len(dlq') :
        /\ dlq'[k].to = DEAD_LETTER_TOPIC
        /\ dlq'[k].error = reason
        /\ \E i \in 1..Len(messages) :
               /\ dlq'[k].offset = messages[i].offset
               /\ dlq'[k].key = messages[i].key
               /\ dlq'[k].topic = messages[i].topic
               /\ dlq'[k].partition = messages[i].partition

OnCreatedAt == {k \in 1..Len(indexes) : indexes[k].key = CREATED_AT_1.key}
C31_State ==
    /\ Cardinality(OnCreatedAt) <= 1
    /\ \A i \in DOMAIN instances :
         /\ instances[i].pc = "idle" /\ instances[i].calls > 0 /\ ~instances[i].erred
              => Cardinality(OnCreatedAt) = 1
         /\ instances[i].pc = "idle" /\ instances[i].calls > 0
              => /\ instances[i].conn.result = "True"
                 /\ instances[i].conn.retry_count = 0
                 /\ instances[i].conn.sleeps = <<>>
C31_Step ==
    \A i \in DOMAIN instances :
       instances'[i].issued # instances[i].issued
         => /\ CREATED_AT_1.name \notin instances[i].seen
            /\ instances[i].pc = "listed"
C31_CreateIndexesIdempotent == [][C31_State' /\ C31_Step]_vars
\* two instances both listed an empty collection and both sent create_index, and
\* another call met an error
C31_Witness ==
    /\ \A i \in DOMAIN instances : instances[i].issued > 0 /\ instances[i].pc = "idle"
    /\ DOMAIN instances # {}
    /\ Cardinality(OnCreatedAt) = 1
    /\ \E i \in DOMAIN instances : instances[i].erred /\ instances[i].calls = MaxCalls
    /\ \E i \in DOMAIN instances : ~instances[i].erred /\ instances[i].calls = 1

\* C32 (stated as claimed): every document handed to the store contains an id field
\* and is stored with its primary key _id equal to its id.
C32_EveryDocumentKeyed ==
    /\ ins.called => \A i \in 1..Len(ins.docs) : ins.docs[i].id # NoId
    /\ \A d \in store : d.id # NoId /\ d._id = d.id

\* C33: send_message is attempted at most 3 times; after an attempt that raises
\* KafkaError it is attempted again, 3 s after the first and 6 s after the second,
\* and the third KafkaError leaves it; every failed attempt records one send
\* failure; an attempt that raises another exception is the last one and yields
\* False, after a single attempt when it is the first.
KafkaErrors(os) ==
    Cardinality({k \in 1..Len(os) : \A j \in 1..k : os[j] = "KafkaError"})
C33_SendMessageRetries ==
    (ret.fn = "send_message" /\ ret.done) =>
        LET k == KafkaErrors(ret.os)
            n == ret.result.counters.attempts
            waits == <<DELAY, DELAY * BACKOFF>>
        IN  /\ n = (IF k < 3 THEN k + 1 ELSE 3)
            /\ ret.result.counters.sleeps = SubSeq(waits, 1, n - 1)
            /\ ret.result.counters.sleeps \in {<<>>, <<3>>, <<3, 6>>}
            /\ ret.result.counters.failures
                  = (IF ret.result.result = "True" THEN n - 1 ELSE n)
            /\ ret.result.counters.sent = n - ret.result.counters.failures
            /\ k = 3 <=> ret.result.result = "raise"
            /\ (k < 3 /\ ret.os[k + 1] = "Exception") <=> ret.result.result = "False"
            /\ ret.os[1] = "Exception" => n = 1 /\ ret.result.result = "False"
\* C33 witnesses: three KafkaErrors, and a non-Kafka exception at the first attempt
C33_Witness ==
    /\ ret.fn = "send_message" /\ ret.done
    /\ ret.os = <<"KafkaError", "KafkaError", "KafkaError">>
    /\ ret.result.counters.attempts = 3 /\ ret.result.counters.failures = 3

\* C34: a health_check called less than health_check_interval (60 s) after the
\* previous probe returns True without sending a probe or touching the status,
\* whatever that probe gave; otherwise it sends one probe, stamps its time and
\* returns True or False (run goes on to generate or to reinitialise: no exception
\* leaves health_check); so two probes are never less than 60 s apart.
Probes == {k \in 1..Len(log) : log[k].ev = "probe"}
C34_State ==
    \A i \in Probes, j \in Probes :
        i < j => log[j].at - log[i].at >= HEALTH_CHECK_INTERVAL
C34_Step ==
    (pc = "health_check" /\ pc' # pc) =>
        IF clock - last_health_check_time < 60
        THEN /\ log' = log
             /\ pc' = "generate_data"
             /\ UNCHANGED <<last_health_check_time, operational, clock>>
        ELSE /\ Len(log') = Len(log) + 1
             /\ log'[Len(log')].ev = "probe" /\ log'[Len(log')].at = clock
             /\ last_health_check_time' = clock
             /\ pc' = IF log'[Len(log')].result THEN "generate_data" ELSE "reinit"
             /\ operational' = IF log'[Len(log')].result THEN "up" ELSE "down"
C34_HealthCheckInterval == [][C34_State' /\ C34_Step]_vars
\* C34 witness: the probe of the first iteration failed, the health check of the
\* second iteration, less than 60 s later, sent nothing and returned True
C34_Witness ==
    /\ pc = "generate_data" /\ calls = 2
    /\ Cardinality(Probes) = 1
    /\ \A k \in Probes : ~log[k].result /\ log[k].iter = 1
    /\ clock - last_health_check_time < HEALTH_CHECK_INTERVAL
\* C38: run leaves its loop only for the finally clause, directly when the loop
\* test finds the flag cleared or through the except clause when an exception
\* escaped an iteration; _cleanup runs there once and run returns with the Kafka
\* producer closed and the status down; after a signal handled while the loop runs,
\* nothing is probed, generated or sent beyond the iteration then in progress.
InIteration == pc \in {"health_check", "reinit", "generate_data", "send_batch", "sleep"}
C38_State ==
    /\ cleanups <= 1
    /\ pc = "returned" => cleanups = 1 /\ producer = "closed" /\ operational = "down"
    /\ pc # "returned" => cleanups = 0 /\ producer = "open"
    /\ \A j \in 1..Len(log), k \in 1..Len(log) :
          (j < k /\ log[j].ev = "signal" /\ log[j].in_run /\ log[k].ev # "signal")
             => log[k].iter = log[j].iter
C38_Step ==
    /\ (InIteration /\ ~InIteration') => pc' \in {"while", "except"}
    /\ (pc = "while" /\ pc' # pc) => pc' = (IF running THEN "health_check" ELSE "finally")
    /\ (pc = "except" /\ pc' # pc) => pc' = "finally"
    /\ (pc = "finally" /\ pc' # pc) => pc' = "returned" /\ cleanups' = cleanups + 1
    /\ pc = "returned" => pc' = "returned"
C38_CleanupExactlyOnce == [][C38_State' /\ C38_Step]_vars
\* C38 witness: a signal came while the first iteration was generating its batch; the
\* batch was sent, no other iteration began, and run returned through _cleanup
C38_Witness ==
    /\ pc = "returned" /\ cleanups = 1 /\ calls = 1 /\ operational = "down"
    /\ \E j \in 1..Len(log) :
          /\ log[j].ev = "signal" /\ log[j].in_run
          /\ j > 1 /\ log[j - 1].ev = "generate"
          /\ j < Len(log) /\ log[j + 1].ev = "send" /\ ~log[j + 1].raised

\* C35: messages_since_commit is never negative and equals the number of raw
\* records of the batches that insert_batch took since the last commit the broker
\* accepted (0 right after such a commit); only a process phase whose write succeeded
\* and an accepted commit change it.
C35_State ==
    /\ messages_since_commit >= 0
    /\ messages_since_commit = uncommitted
    /\ (lastProc.called /\ lastProc.commit = "ok") => messages_since_commit = 0
C35_Step ==
    messages_since_commit' # messages_since_commit =>
        \/ pc = "insert" /\ ins.result = "True" /\ lastProc'.result = "True"
        \/ pc = "final_commit" /\ lastCommit'.issued /\ lastCommit'.ok
              /\ messages_since_commit' = 0
C35_CounterTracksUncommitted == [][C35_State' /\ C35_Step]_vars
\* C35 witness: a batch of two records of which one was transformed has been stored
\* after a rejected commit, and the counter stands at three
C35_Witness ==
    /\ lastProc.called /\ lastProc.result = "True" /\ lastProc.transformed = 1
    /\ Len(messages) = 2 /\ lastProc.cursorBefore = 1 /\ lastProc.commit = "failed"
    /\ messages_since_commit = 3

\* C36 (stated as claimed): when the insert_batch of a process phase has reported
\* failure and the batch has been dead-lettered, the store holds no document of a
\* record of that batch.
C36_FailedBatchNotStored ==
    (ProcessEnded /\ lastProc.result = "False") =>
        \A i \in 1..Len(messages) :
            DeadLettered(messages[i].offset)
              => ~\E d \in store : d.src = messages[i].offset

\* C37: a process phase over a batch whose records all fail transformation, or
\* whose write fails, issues no commit and leaves messages_since_commit as it was,
\* also when the counter is at or above the threshold after a rejected commit; an
\* iteration that polled nothing has no process phase and changes neither; while the
\* loop runs, a commit is issued only by the step that ends a process phase whose
\* write succeeded.
C37_State ==
    (ProcessEnded /\ (lastProc.transformed = 0 \/ lastProc.result = "False")) =>
        /\ lastProc.commit = "none"
        /\ messages_since_commit = lastProc.cursorBefore
C37_Step ==
    /\ (InLoop /\ pc # "insert") =>
          UNCHANGED <<lastCommit, committed, messages_since_commit>>
    /\ (pc = "insert" /\ ins'.result # "True") =>
          UNCHANGED <<lastCommit, committed, messages_since_commit>>
    /\ (pc = "consume" /\ pc' # pc /\ messages' = <<>>) => pc' # "process"
C37_NoCommitWithoutStoredBatch == [][C37_State' /\ C37_Step]_vars
\* C37 witness: with the counter at the threshold after a rejected commit, a batch
\* whose write failed has been dead-lettered without a commit call
C37_Witness ==
    /\ ProcessEnded /\ lastProc.result = "False"
    /\ messages_since_commit >= config.offset_commit_frequency
    /\ lastCommit.issued /\ ~lastCommit.ok /\ owed > 0
    /\ Published > 0

====
